---- MODULE Spec2Model ----
(***************************************************************************)
(* Client sync controller of the live Q&A room (frontend/src/hooks and     *)
(* frontend/src/pages): the push-channel hook useRoomSocket, the attendee  *)
(* controller (useRoomLogic and the RoomPage component that preceded it),  *)
(* and the ordering and gating rules they apply.                           *)
(***************************************************************************)
EXTENDS Integers, Sequences, FiniteSets, TLC

(***************************************************************************)
(* Bounds of the model and constants of the program.                       *)
(***************************************************************************)
\* number of times the room id handed to useRoomSocket changes
MaxRoomChanges == 2
\* the reconnect backoff, in seconds (setTimeout(..., 3000))
ReconnectDelay == 3

NoRoom == "none"
Rooms == {"r1", "r2"}
\* one socket and one timer slot per effect run that can start a reconnect chain
SockIds == 1..(MaxRoomChanges + 1)
TimerIds == 1..(MaxRoomChanges + 1)
\* a timer id that is truthy but names no pending timer (fired or cleared)
StaleTimer == -1
NoMsg == "null"
\* query data that is still undefined, and query data that arrived
NoList == [ok |-> FALSE, list |-> <<>>]
Loaded(l) == [ok |-> TRUE, list |-> l]
NoRecord == [ok |-> FALSE, status |-> "WAITING", starts_at |-> 0, expires_at |-> 0]
Fetched(r) == [ok |-> TRUE, status |-> r.status, starts_at |-> r.starts_at,
               expires_at |-> r.expires_at]
\* "garbage" stands for a frame that JSON.parse rejects
Frames == {"QUESTION_CREATED", "QUESTION_UPDATED", "ROOM_STATUS_CHANGED",
           "ROOM_STATUS_UPDATE", "ROOM_EXTENDED", "garbage"}

VARIABLES
    mounted,              \* the component that calls useRoomSocket is mounted
    roomId,               \* the hook's argument at the last render
    roomChanges,          \* how often roomId has changed
    status,               \* useState<WebSocketStatus>
    lastMessage,          \* useState<any>
    effectPending,        \* lastMessage changed and the consumer's effect has not run yet
    wsRef,                \* useRef<WebSocket | null>: a socket id or 0
    reconnectTimeoutRef,  \* useRef<number | undefined>: a timer id, StaleTimer or 0
    sockets,              \* every WebSocket object created and not yet closed
    timers                \* every setTimeout of the hook that is still pending

VARIABLES
    now,                  \* the wall clock (new Date()), in clock units
    srvRoom,              \* the room record the Room Registry holds
    room,                 \* the page's room query data (ok = FALSE while undefined)
    rendered              \* what the last render of RoomPage computed

VARIABLES
    view,                 \* the component that renders: "useRoomLogic", "RoomPage" or "useDashboardLogic"
    sortBy,               \* useState sortBy
    activeTab,            \* useState activeTab of the dashboard
    cache,                \* query data of ['questions', room.id, mode], per mode
    dashQuestions,        \* data.questions of the ['dashboard', code, token] query
    shown                 \* the question list the last render displayed

VARIABLES
    srvQuestions,         \* Question Store: the room's questions, in creation order
    srvLedger,            \* Vote Dedup Ledger: the question ids this voter has a vote record for
    srvChanges,           \* how many changes other participants have made
    inbox,                \* per socket, the frames the broadcaster sent that have not arrived
    roomFetch,            \* the ['room', code] query: "idle" or "sent"
    qFetch,               \* per mode, the ['questions', room.id, mode] query's fetch
    post,                 \* postMutation: its status and its context
    vote,                 \* voteMutation: its status, its variable and its context
    submits,              \* how many questions this client has submitted
    votedQuestions,       \* useState votedQuestions
    storedVoted,          \* localStorage voted_<code>
    voteRequests,         \* per question id, the vote requests sent so far
    acts,                 \* how many things the attendee has done
    gap,                  \* "none", "dropped" (a socket closed), "missed" (the latest
                          \* question event went to no open socket after a drop)
    grp                   \* the cached list before the first of the mutations now
                          \* overlapping, and whether only their own edits touched it

VARIABLES
    dSrvQuestions,        \* Question Store, as the organizer dashboard reads it:
                          \* [id, is_answered, organizer_reply] per question
    dData,                \* query data of ['dashboard', code, token]
    dFetch,               \* that query's fetch
    dEvent,               \* a frame has become lastMessage and the dashboard's effect has not run
    reply,                \* replyMutation: its status, variables and context
    mark,                 \* markAnsweredMutation
    control,              \* sessionControlMutation
    dActs                 \* how many things organizers have done

VARIABLES
    twin                  \* two clients side by side: per client, lastMessage with its
                          \* payload, whether the effect is due, the fetches under way
                          \* and the question list held

VARIABLES
    recon,                \* the sort modes whose list request under way was started by the
                          \* effect on lastMessage
    orphans,              \* the sort modes whose such request was under way when the page unmounted
    late                  \* the sort modes whose cached list is the answer to such a request

VARIABLES
    calls,                \* Question Store: the vote calls of one (room, question, voter) and their outcomes
    last,                 \* the last call to the Room Registry or the Question Store, and its outcome
    bcast,                \* Broadcaster: subscriptions, published events, events received
    form,                 \* the attendee's question form and the submit requests it has sent
    landing,              \* LandingPage: the join form and the route
    device                \* local storage's voter id, the hook's voterId and the ids its requests carried

VARIABLES
    voted,                \* the voted set: the state, the value the last render saw, the stored copy
    mine,                 \* "my questions": the state, the stored copy, the submits under way
    modal,                \* the dashboard's extend dialog: showExtendModal
    heard                 \* the frames ws.onmessage has been called with

sockVars == <<mounted, roomId, roomChanges, status, lastMessage, effectPending,
              wsRef, reconnectTimeoutRef, sockets, timers>>
gateVars == <<now, srvRoom, room, rendered>>
sortVars == <<view, sortBy, activeTab, cache, dashQuestions, shown>>
syncVars == <<srvQuestions, srvLedger, srvChanges, inbox, roomFetch, qFetch, post, vote,
              submits, votedQuestions, storedVoted, voteRequests, acts, gap, grp>>
dashVars == <<dSrvQuestions, dData, dFetch, dEvent, reply, mark, control, dActs>>
twinVars == <<twin>>
pageVars == <<recon, orphans, late>>
moreVars == <<calls, last, bcast, form, landing, device>>
lastVars == <<voted, mine, modal, heard>>
extVars == <<dashVars, twinVars, pageVars, moreVars, lastVars>>
vars == <<sockVars, gateVars, sortVars, syncVars, extVars>>

FreeSock == [room |-> NoRoom, state |-> "FREE"]
FreeTimer == [room |-> NoRoom, left |-> -1]

SockInit ==
    /\ mounted = TRUE
    /\ roomId = NoRoom
    /\ roomChanges = 0
    /\ status = "disconnected"
    /\ lastMessage = NoMsg
    /\ effectPending = FALSE
    /\ wsRef = 0
    /\ reconnectTimeoutRef = 0
    /\ sockets = [s \in SockIds |-> FreeSock]
    /\ timers = [t \in TimerIds |-> FreeTimer]

\* a state setter of an unmounted component changes nothing
SetState(old, new) == IF mounted THEN new ELSE old

SockIsFree(r) == r.state = "FREE"
TimerIsFree(r) == r.left = -1
HasFreeSock(ss) == \E s \in SockIds : SockIsFree(ss[s])
HasFreeTimer(ts) == \E t \in TimerIds : TimerIsFree(ts[t])

(***************************************************************************)
(* connect(): opens a socket to room r, in the socket table ss, and gives  *)
(* the new table, the new wsRef and the new status.                        *)
(***************************************************************************)
ConnectSock(ss, r) ==
    CHOOSE i \in SockIds : SockIsFree(ss[i]) /\ \A j \in SockIds : SockIsFree(ss[j]) => i <= j
ConnectSockets(ss, r) ==
    [ss EXCEPT ![ConnectSock(ss, r)] = [room |-> r, state |-> "CONNECTING"]]

\* ws.close(): starts the closing handshake; the close event comes later
CloseCall(ss, s) ==
    IF s # 0 /\ ss[s].state \in {"CONNECTING", "OPEN"}
    THEN [ss EXCEPT ![s].state = "CLOSING"]
    ELSE ss

\* clearTimeout(id)
ClearTimeout(ts, id) ==
    IF id \in TimerIds THEN [ts EXCEPT ![id] = FreeTimer] ELSE ts

\* the effect's cleanup: closes the referenced socket, clears the referenced timer
CleanupSockets(ss) == CloseCall(ss, wsRef)
CleanupTimers(ts) == ClearTimeout(ts, reconnectTimeoutRef)
CleanupRef == IF reconnectTimeoutRef = 0 THEN 0 ELSE StaleTimer

(***************************************************************************)
(* The hook is rendered with another room id: the old effect's cleanup     *)
(* runs, then the new effect, which connects when the id is defined.       *)
(***************************************************************************)
SetRoomId(r) ==
    /\ mounted
    /\ r # roomId
    /\ roomChanges < MaxRoomChanges
    /\ roomChanges' = roomChanges + 1
    /\ roomId' = r
    /\ timers' = CleanupTimers(timers)
    /\ reconnectTimeoutRef' = CleanupRef
    /\ IF r # NoRoom
       THEN /\ HasFreeSock(CleanupSockets(sockets))
            /\ sockets' = ConnectSockets(CleanupSockets(sockets), r)
            /\ wsRef' = ConnectSock(CleanupSockets(sockets), r)
            /\ status' = "connecting"
       ELSE /\ sockets' = CleanupSockets(sockets)
            /\ UNCHANGED <<wsRef, status>>
    /\ UNCHANGED <<mounted, lastMessage, effectPending>>

Unmount ==
    /\ mounted
    /\ mounted' = FALSE
    /\ sockets' = CleanupSockets(sockets)
    /\ timers' = CleanupTimers(timers)
    /\ reconnectTimeoutRef' = CleanupRef
    /\ UNCHANGED <<roomId, roomChanges, status, lastMessage, effectPending, wsRef>>

\* ws.onopen
OnOpen(s) ==
    /\ sockets[s].state = "CONNECTING"
    /\ sockets' = [sockets EXCEPT ![s].state = "OPEN"]
    /\ status' = SetState(status, "connected")
    /\ timers' = ClearTimeout(timers, reconnectTimeoutRef)
    /\ reconnectTimeoutRef' = 0
    /\ UNCHANGED <<mounted, roomId, roomChanges, lastMessage, effectPending, wsRef>>

\* a parser that takes every frame for a message
ParsesAll(frame) == TRUE
\* JSON.parse(event.data) returns for a frame of the broadcaster and throws for
\* text that is not JSON
Parses(frame) == frame # "garbage"

\* ws.onmessage: a frame that parses becomes lastMessage, any other is logged
OnMessage(s, frame) ==
    /\ sockets[s].state = "OPEN"
    /\ IF ~Parses(frame) \/ ~mounted
       THEN UNCHANGED <<lastMessage, effectPending>>
       ELSE /\ lastMessage' = frame
            /\ effectPending' = TRUE
    /\ UNCHANGED <<mounted, roomId, roomChanges, status, wsRef,
                   reconnectTimeoutRef, sockets, timers>>

\* ws.onerror: logs and calls ws.close()
OnError(s) ==
    /\ sockets[s].state \in {"CONNECTING", "OPEN"}
    /\ sockets' = CloseCall(sockets, s)
    /\ UNCHANGED <<mounted, roomId, roomChanges, status, lastMessage,
                   effectPending, wsRef, reconnectTimeoutRef, timers>>

\* ws.onclose: the close event of a socket the peer closed or that was closing
OnCloseTimer(ts) ==
    CHOOSE i \in TimerIds : TimerIsFree(ts[i]) /\ \A j \in TimerIds : TimerIsFree(ts[j]) => i <= j
OnCloseTimers(ts, r) ==
    [ts EXCEPT ![OnCloseTimer(ts)] = [room |-> r, left |-> ReconnectDelay]]
OnClose(s) ==
    /\ sockets[s].state \in {"OPEN", "CLOSING"}
    /\ HasFreeTimer(timers)
    /\ sockets' = [sockets EXCEPT ![s] = FreeSock]
    /\ status' = SetState(status, "disconnected")
    /\ wsRef' = 0
    /\ timers' = OnCloseTimers(timers, sockets[s].room)
    /\ reconnectTimeoutRef' = OnCloseTimer(timers)
    /\ UNCHANGED <<mounted, roomId, roomChanges, lastMessage, effectPending>>

\* the reconnect timer expires: its callback calls the connect() it closed over
TimerFire(t) ==
    /\ timers[t].left = 0
    /\ HasFreeSock(sockets)
    /\ timers' = [timers EXCEPT ![t] = FreeTimer]
    /\ reconnectTimeoutRef' =
          IF reconnectTimeoutRef = t THEN StaleTimer ELSE reconnectTimeoutRef
    /\ sockets' = ConnectSockets(sockets, timers[t].room)
    /\ wsRef' = ConnectSock(sockets, timers[t].room)
    /\ status' = SetState(status, "connecting")
    /\ UNCHANGED <<mounted, roomId, roomChanges, lastMessage, effectPending>>

\* one second passes; a timer that is due fires before the next second
Tick ==
    /\ \E t \in TimerIds : timers[t].left > 0
    /\ \A t \in TimerIds : timers[t].left # 0
    /\ timers' = [t \in TimerIds |->
                    IF timers[t].left > 0
                    THEN [timers[t] EXCEPT !.left = @ - 1]
                    ELSE timers[t]]
    /\ UNCHANGED <<mounted, roomId, roomChanges, status, lastMessage,
                   effectPending, wsRef, reconnectTimeoutRef, sockets>>

\* the consumer's effect on lastMessage (here: nothing but taking note of it)
EffectSeen ==
    /\ effectPending
    /\ effectPending' = FALSE
    /\ UNCHANGED <<mounted, roomId, roomChanges, status, lastMessage,
                   wsRef, reconnectTimeoutRef, sockets, timers>>


(***************************************************************************)
(* Expiry gating of the attendee page (RoomPage).  Times are in clock      *)
(* units; the page computes isUpcoming and isExpired when it renders.      *)
(***************************************************************************)
\* the last clock value of the model
MaxNow == 4
\* the latest expiry time a room can reach
MaxExpiry == 4

Statuses == {"WAITING", "LIVE", "ENDED"}

GateInit ==
    /\ now = 0
    /\ srvRoom \in [status : {"WAITING", "LIVE"}, starts_at : {0, 1}, expires_at : 1..2]
    /\ room = NoRecord
    /\ rendered = [page |-> "loading", isExpired |-> FALSE]

\* RoomPage's render: the loading screen, the "starts at" card, or the room
RenderPage(rm, t) ==
    IF ~rm.ok THEN [page |-> "loading", isExpired |-> FALSE]
    ELSE IF rm.starts_at > t THEN [page |-> "upcoming", isExpired |-> rm.expires_at < t]
    ELSE [page |-> "room", isExpired |-> rm.expires_at < t]

\* the footer shows the question form
SubmitOffered == rendered.page = "room" /\ ~rendered.isExpired
\* the vote button of a question not yet voted for calls voteMutation.mutate
VoteOffered == rendered.page = "room" /\ ~rendered.isExpired

ClockAdvance ==
    /\ now < MaxNow
    /\ now' = now + 1
    /\ UNCHANGED <<srvRoom, room, rendered>>

\* the ['room', code] query delivers the server's record; the page renders
RoomQueryDone ==
    /\ room' = Fetched(srvRoom)
    /\ rendered' = RenderPage(Fetched(srvRoom), now)
    /\ UNCHANGED <<now, srvRoom>>

\* a render for any other reason (typing, a question list arriving, a vote)
RoomPageRender ==
    /\ rendered' = RenderPage(room, now)
    /\ UNCHANGED <<now, srvRoom, room>>

\* Room Registry: start, end, extend by the organizer
RegistryStart ==
    /\ srvRoom.status = "WAITING"
    /\ srvRoom' = [srvRoom EXCEPT !.status = "LIVE"]
    /\ UNCHANGED <<now, room, rendered>>

RegistryEnd ==
    /\ srvRoom.status # "ENDED"
    /\ srvRoom' = [srvRoom EXCEPT !.status = "ENDED"]
    /\ UNCHANGED <<now, room, rendered>>

RegistryExtend(minutes) ==
    /\ srvRoom.status = "LIVE"
    /\ minutes > 0
    /\ srvRoom.expires_at + minutes <= MaxExpiry
    /\ srvRoom' = [srvRoom EXCEPT !.expires_at = @ + minutes]
    /\ UNCHANGED <<now, room, rendered>>

(***************************************************************************)
(* Question lists and their order.  A question is a record                 *)
(* [id, votes, created_at, is_answered]; the store keeps them in creation  *)
(* order, with ids 1, 2, ... ; a placeholder has a negative id.            *)
(***************************************************************************)
\* most questions in the store
MaxLen == 3
\* most votes a stored question starts with
MaxVotes == 1
\* latest creation time of a stored question
MaxCreated == 2

\* the comparator of useRoomLogic.sortedQuestions
CmpRoomLogic(mode, a, b) ==
    IF mode \in {"top", "answered"}
    THEN IF mode = "top" /\ a.is_answered # b.is_answered
         THEN (IF a.is_answered THEN 1 ELSE -1)
         ELSE b.votes - a.votes
    ELSE a.created_at - b.created_at

\* the comparator of RoomPage's questions
CmpRoomPage(mode, a, b) ==
    IF mode = "top"
    THEN IF a.is_answered # b.is_answered
         THEN (IF a.is_answered THEN 1 ELSE -1)
         ELSE b.votes - a.votes
    ELSE a.created_at - b.created_at

\* the comparator of useDashboardLogic.sortedQuestions
CmpDashboard(mode, a, b) ==
    IF mode = "top"
    THEN IF b.votes # a.votes THEN b.votes - a.votes
         ELSE b.created_at - a.created_at
    ELSE b.created_at - a.created_at

\* Question Store list(room, sort_mode): the order the store answers in
ListCmp(mode, a, b) ==
    IF mode = "latest" THEN a.created_at - b.created_at
    ELSE IF mode = "top" /\ a.is_answered # b.is_answered
         THEN (IF a.is_answered THEN 1 ELSE -1)
    ELSE IF b.votes # a.votes THEN b.votes - a.votes
    ELSE IF mode = "top" THEN b.created_at - a.created_at
    ELSE 0

\* the comparator of a sort call site
Cmp(site, mode, a, b) ==
    IF site = "useRoomLogic" THEN CmpRoomLogic(mode, a, b)
    ELSE IF site = "RoomPage" THEN CmpRoomPage(mode, a, b)
    ELSE IF site = "useDashboardLogic" THEN CmpDashboard(mode, a, b)
    ELSE ListCmp(mode, a, b)

RECURSIVE InsertSorted(_, _, _, _)
\* x goes behind every element it does not sort strictly before
InsertSorted(sorted, x, site, mode) ==
    IF sorted = <<>> THEN <<x>>
    ELSE IF Cmp(site, mode, x, sorted[Len(sorted)]) >= 0 THEN Append(sorted, x)
    ELSE Append(InsertSorted(SubSeq(sorted, 1, Len(sorted) - 1), x, site, mode),
                sorted[Len(sorted)])

RECURSIVE StableSort(_, _, _)
\* Array.prototype.sort with the site's comparator: a stable sort
StableSort(list, site, mode) ==
    IF list = <<>> THEN <<>>
    ELSE InsertSorted(StableSort(SubSeq(list, 1, Len(list) - 1), site, mode),
                      list[Len(list)], site, mode)

\* the predicate of a filter call: "all", "answered" or "unanswered"
Keep(kind, q) ==
    IF kind = "answered" THEN q.is_answered
    ELSE IF kind = "unanswered" THEN ~q.is_answered
    ELSE TRUE

RECURSIVE Filter(_, _)
\* Array.prototype.filter
Filter(list, kind) ==
    IF list = <<>> THEN <<>>
    ELSE IF Keep(kind, Head(list)) THEN <<Head(list)>> \o Filter(Tail(list), kind)
    ELSE Filter(Tail(list), kind)

\* a view that sorts without filtering
sortedQuestionsUnfiltered(v, mode, tab, list) == StableSort(list, v, mode)

\* what each view displays of a list
sortedQuestions(v, mode, tab, list) ==
    IF v = "useRoomLogic"
    THEN StableSort(Filter(list, IF mode = "answered" THEN "answered" ELSE "all"), v, mode)
    ELSE IF v = "RoomPage"
    THEN StableSort(list, v, mode)
    ELSE Filter(StableSort(list, v, mode), tab)

ServerList(mode, stored) ==
    StableSort(Filter(stored, IF mode = "answered" THEN "answered" ELSE "all"), "store", mode)

\* every content of the store: n questions, ids and creation times ascending
Stores ==
    UNION {
      { [i \in 1..n |-> [id |-> i, votes |-> f[i].votes, created_at |-> f[i].created_at,
                         is_answered |-> f[i].is_answered]] :
          f \in { g \in [1..n -> [votes : 0..MaxVotes, created_at : 1..MaxCreated,
                                  is_answered : BOOLEAN]] :
                    \A i \in 1..n, j \in 1..n : i < j => g[i].created_at <= g[j].created_at } }
      : n \in 0..MaxLen }

ModesOf(v) ==
    IF v = "useRoomLogic" THEN {"top", "latest", "answered"} ELSE {"top", "latest"}
AllModes == {"top", "latest", "answered"}

\* an edit that gives every question the vote
VoteEveryQuestion(list, questionId) ==
    [i \in 1..Len(list) |-> [list[i] EXCEPT !.votes = @ + 1]]
\* the optimistic edit of voteMutation.onMutate
OptimisticVote(list, questionId) ==
    [i \in 1..Len(list) |->
        IF list[i].id = questionId THEN [list[i] EXCEPT !.votes = @ + 1] ELSE list[i]]

\* the placeholder of postMutation.onMutate: a temporary id, created "now"
Placeholder(tempId) ==
    [id |-> tempId, votes |-> 0, created_at |-> MaxCreated + 1, is_answered |-> FALSE]

\* the optimistic edit of postMutation.onMutate
OptimisticSubmit(list, mode, tempId) ==
    IF mode = "latest" THEN Append(list, Placeholder(tempId))
    ELSE <<Placeholder(tempId)>> \o list

\* the list a view displays: its query data, or the dashboard's questions
Display(v, mode, tab, c, dq) ==
    sortedQuestions(v, mode, tab,
        IF v = "useDashboardLogic" THEN dq ELSE IF c[mode].ok THEN c[mode].list ELSE <<>>)

\* the query data after a render: RoomPage sorts the cached array itself
AfterRender(v, mode, c) ==
    IF v = "RoomPage" /\ c[mode].ok
    THEN [c EXCEPT ![mode].list = StableSort(@, v, mode)]
    ELSE c

\* the render that follows a change of the query data c or of the mode
Rerender(c, mode) ==
    /\ cache' = AfterRender(view, mode, c)
    /\ shown' = Display(view, mode, activeTab, c, dashQuestions)

SortInit ==
    /\ view \in {"useRoomLogic", "RoomPage", "useDashboardLogic"}
    /\ sortBy \in ModesOf(view)
    /\ activeTab \in {"unanswered", "answered"}
    /\ \E stored \in Stores :
         IF view = "useDashboardLogic"
         THEN /\ cache = [m \in AllModes |-> NoList]
              /\ \E m \in {"top", "latest"} : dashQuestions = ServerList(m, stored)
         ELSE /\ cache = [m \in AllModes |->
                            IF m = sortBy THEN Loaded(ServerList(m, stored)) ELSE NoList]
              /\ dashQuestions = <<>>
    /\ shown = Display(view, sortBy, activeTab, cache, dashQuestions)

HasId(list, qid) == \E i \in 1..Len(list) : list[i].id = qid

\* the attendee votes for a listed question: the cached list gets the +1
SortVote(questionId) ==
    /\ view # "useDashboardLogic"
    /\ HasId(shown, questionId)
    /\ \A i \in 1..Len(cache[sortBy].list) :
          cache[sortBy].list[i].id > 0 /\ cache[sortBy].list[i].votes <= MaxVotes
    /\ Rerender([cache EXCEPT ![sortBy].list = OptimisticVote(@, questionId)], sortBy)
    /\ UNCHANGED <<view, sortBy, activeTab, dashQuestions>>

\* the attendee submits a question: the cached list gets the placeholder
SortSubmit ==
    /\ view # "useDashboardLogic"
    /\ \A i \in 1..Len(cache[sortBy].list) :
          cache[sortBy].list[i].id > 0 /\ cache[sortBy].list[i].votes <= MaxVotes
    /\ Rerender([cache EXCEPT ![sortBy].list = OptimisticSubmit(@, sortBy, -1)], sortBy)
    /\ UNCHANGED <<view, sortBy, activeTab, dashQuestions>>

\* the dashboard's sort buttons: the same questions in the other order
SortSetSortBy(m) ==
    /\ view = "useDashboardLogic"
    /\ m \in ModesOf(view)
    /\ m # sortBy
    /\ sortBy' = m
    /\ Rerender(cache, m)
    /\ UNCHANGED <<view, activeTab, dashQuestions>>

\* the dashboard's tab buttons
SetActiveTab(tab) ==
    /\ view = "useDashboardLogic"
    /\ tab # activeTab
    /\ activeTab' = tab
    /\ shown' = Display(view, sortBy, tab, cache, dashQuestions)
    /\ UNCHANGED <<view, sortBy, cache, dashQuestions>>

(***************************************************************************)
(* The attendee controller (useRoomLogic, and RoomPage before it): the     *)
(* room and question queries, the effect on lastMessage, and the submit    *)
(* and vote mutations, against the Question Store and the broadcaster.     *)
(***************************************************************************)
\* changes by other participants and the organizer
MaxSrvChanges == 2
\* submits, votes, sort switches and reloads of the attendee
MaxActs == 3

TheRoom == "r1"
IdleFetch == [st |-> "idle", list |-> <<>>]
SentFetch == [st |-> "sent", list |-> <<>>]
Resp(l) == [st |-> "resp", list |-> l]
IdlePost == [st |-> "idle", prev |-> NoList, tempId |-> 0, newQ |-> Placeholder(0),
             toasts |-> 0, requests |-> 0]
IdleVote == [st |-> "idle", prev |-> NoList, q |-> 0, toasts |-> 0, requests |-> 0]
InFlight(m) == m.st \in {"sent", "ok", "fail"}
QuestionIds == (-MaxActs)..(MaxLen + MaxActs)

\* the questions the room starts with
SeedStore ==
    << [id |-> 1, votes |-> 1, created_at |-> 1, is_answered |-> FALSE],
       [id |-> 2, votes |-> 0, created_at |-> 2, is_answered |-> FALSE] >>

SyncIdle ==
    /\ srvQuestions = <<>> /\ srvLedger = {} /\ srvChanges = 0
    /\ inbox = [s \in SockIds |-> <<>>]
    /\ roomFetch = "idle"
    /\ qFetch = [m \in AllModes |-> IdleFetch]
    /\ post = IdlePost /\ vote = IdleVote /\ submits = 0
    /\ votedQuestions = {} /\ storedVoted = {}
    /\ voteRequests = [q \in QuestionIds |-> 0]
    /\ acts = 0
    /\ gap = "none"
    /\ grp = [base |-> NoList, clean |-> FALSE, overlap |-> FALSE]

\* the page has just mounted: the room query is under way
SyncInit ==
    /\ srvQuestions = SeedStore /\ srvLedger = {} /\ srvChanges = 0
    /\ inbox = [s \in SockIds |-> <<>>]
    /\ roomFetch = "sent"
    /\ qFetch = [m \in AllModes |-> IdleFetch]
    /\ post = IdlePost /\ vote = IdleVote /\ submits = 0
    /\ votedQuestions = {} /\ storedVoted = {}
    /\ voteRequests = [q \in QuestionIds |-> 0]
    /\ acts = 0
    /\ gap = "none"
    /\ grp = [base |-> NoList, clean |-> FALSE, overlap |-> FALSE]

SyncGateInit ==
    /\ now = 0
    /\ srvRoom = [status |-> "WAITING", starts_at |-> 0, expires_at |-> 1]
    /\ room = NoRecord
    /\ rendered = [page |-> "loading", isExpired |-> FALSE]

SyncSortInit ==
    /\ view \in {"useRoomLogic", "RoomPage"}
    /\ sortBy = "top" /\ activeTab = "unanswered"
    /\ cache = [m \in AllModes |-> NoList]
    /\ dashQuestions = <<>>
    /\ shown = <<>>

\* publish(room, event): the frame goes to every socket open on the room
IsSubscribed(s) == sockets[s].state = "OPEN" /\ sockets[s].room = TheRoom
Publish(box, frame) ==
    [s \in SockIds |-> IF IsSubscribed(s) THEN Append(box[s], frame) ELSE box[s]]

\* the ghost gap after a question event is published
GapAfterPublish ==
    IF \E s \in SockIds : IsSubscribed(s)
    THEN (IF gap = "missed" THEN "dropped" ELSE gap)
    ELSE (IF gap = "none" THEN "none" ELSE "missed")

IsQuestionFrame(f) == f \in {"QUESTION_CREATED", "QUESTION_UPDATED"}

\* queryClient.invalidateQueries(['questions', room.id]): the observed query refetches
InvalidateQuestions(qf) == [qf EXCEPT ![sortBy] = SentFetch]
\* no fetch is dropped when a mutation begins
KeepQueries(qf, modes) == qf
\* queryClient.cancelQueries: the fetches of these modes are dropped
CancelQueries(qf, modes) == [m \in AllModes |-> IF m \in modes THEN IdleFetch ELSE qf[m]]

(***************************************************************************)
(* Other participants and the organizer, at the store and the registry.    *)
(***************************************************************************)
OtherSubmit ==
    /\ srvChanges < MaxSrvChanges
    /\ Len(srvQuestions) < MaxLen
    /\ srvChanges' = srvChanges + 1
    /\ srvQuestions' = Append(srvQuestions,
          [id |-> Len(srvQuestions) + 1, votes |-> 0, created_at |-> MaxCreated + 1,
           is_answered |-> FALSE])
    /\ inbox' = Publish(inbox, "QUESTION_CREATED")
    /\ gap' = GapAfterPublish
    /\ UNCHANGED <<srvLedger, roomFetch, qFetch, post, vote, submits, votedQuestions,
                   storedVoted, voteRequests, acts, grp>>

OtherVote(i) ==
    /\ srvChanges < MaxSrvChanges
    /\ i \in 1..Len(srvQuestions)
    /\ srvChanges' = srvChanges + 1
    /\ srvQuestions' = [srvQuestions EXCEPT ![i].votes = @ + 1]
    /\ inbox' = Publish(inbox, "QUESTION_UPDATED")
    /\ gap' = GapAfterPublish
    /\ UNCHANGED <<srvLedger, roomFetch, qFetch, post, vote, submits, votedQuestions,
                   storedVoted, voteRequests, acts, grp>>

OrganizerAnswers(i) ==
    /\ srvChanges < MaxSrvChanges
    /\ i \in 1..Len(srvQuestions)
    /\ ~srvQuestions[i].is_answered
    /\ srvChanges' = srvChanges + 1
    /\ srvQuestions' = [srvQuestions EXCEPT ![i].is_answered = TRUE]
    /\ inbox' = Publish(inbox, "QUESTION_UPDATED")
    /\ gap' = GapAfterPublish
    /\ UNCHANGED <<srvLedger, roomFetch, qFetch, post, vote, submits, votedQuestions,
                   storedVoted, voteRequests, acts, grp>>

\* a registry operation and the event it publishes
OrganizerControls ==
    /\ srvChanges < MaxSrvChanges
    /\ srvChanges' = srvChanges + 1
    /\ \/ RegistryStart /\ inbox' = Publish(inbox, "ROOM_STATUS_CHANGED")
       \/ RegistryEnd /\ inbox' = Publish(inbox, "ROOM_STATUS_CHANGED")
       \/ RegistryExtend(1) /\ inbox' = Publish(inbox, "ROOM_EXTENDED")
    /\ UNCHANGED <<srvQuestions, srvLedger, roomFetch, qFetch, post, vote, submits,
                   votedQuestions, storedVoted, voteRequests, acts, gap, grp>>

(***************************************************************************)
(* The queries.                                                            *)
(***************************************************************************)
\* the room query delivers: the questions query is enabled and the socket hook
\* gets the room id
RoomArrives ==
    /\ roomFetch = "sent"
    /\ roomFetch' = "idle"
    /\ RoomQueryDone
    /\ IF room.ok
       THEN UNCHANGED <<sockVars, qFetch>>
       ELSE /\ SetRoomId(TheRoom)
            /\ qFetch' = [qFetch EXCEPT ![sortBy] = SentFetch]
    /\ UNCHANGED <<srvQuestions, srvLedger, srvChanges, inbox, post, vote, submits,
                   votedQuestions, storedVoted, voteRequests, acts, gap, grp>>

\* the store answers a question list request
ListAnswered(m) ==
    /\ qFetch[m].st = "sent"
    /\ qFetch' = [qFetch EXCEPT ![m] = Resp(ServerList(m, srvQuestions))]
    /\ UNCHANGED <<srvQuestions, srvLedger, srvChanges, inbox, roomFetch, post, vote,
                   submits, votedQuestions, storedVoted, voteRequests, acts, gap, grp>>

\* the answer arrives and replaces the query data
ListArrives(m) ==
    /\ qFetch[m].st = "resp"
    /\ Rerender([cache EXCEPT ![m] = Loaded(qFetch[m].list)], sortBy)
    /\ qFetch' = [qFetch EXCEPT ![m] = IdleFetch]
    /\ grp' = [grp EXCEPT !.clean = FALSE]
    /\ UNCHANGED <<view, sortBy, activeTab, dashQuestions>>
    /\ UNCHANGED <<srvQuestions, srvLedger, srvChanges, inbox, roomFetch, post, vote,
                   submits, votedQuestions, storedVoted, voteRequests, acts, gap>>

\* the request fails for good: the query keeps its data
ListFails(m) ==
    /\ qFetch[m].st \in {"sent", "resp"}
    /\ qFetch' = [qFetch EXCEPT ![m] = IdleFetch]
    /\ UNCHANGED <<srvQuestions, srvLedger, srvChanges, inbox, roomFetch, post, vote,
                   submits, votedQuestions, storedVoted, voteRequests, acts, gap, grp>>

\* the sort buttons: the observer moves to the other mode's query, which fetches
SetSortBy(m) ==
    /\ m \in ModesOf(view)
    /\ m # sortBy
    /\ acts < MaxActs
    /\ acts' = acts + 1
    /\ sortBy' = m
    /\ Rerender(cache, m)
    /\ UNCHANGED <<view, activeTab, dashQuestions>>
    /\ qFetch' = IF room.ok /\ qFetch[m].st = "idle"
                 THEN [qFetch EXCEPT ![m] = SentFetch] ELSE qFetch
    /\ grp' = [grp EXCEPT !.clean = FALSE]
    /\ UNCHANGED <<srvQuestions, srvLedger, srvChanges, inbox, roomFetch, post, vote,
                   submits, votedQuestions, storedVoted, voteRequests, gap>>

(***************************************************************************)
(* The push channel as the controller sees it.                             *)
(***************************************************************************)
\* a frame of the broadcaster arrives
FrameArrives(s) ==
    /\ inbox[s] # <<>>
    /\ OnMessage(s, Head(inbox[s]))
    /\ inbox' = [inbox EXCEPT ![s] = Tail(@)]
    /\ UNCHANGED <<srvQuestions, srvLedger, srvChanges, roomFetch, qFetch, post, vote,
                   submits, votedQuestions, storedVoted, voteRequests, acts, gap, grp>>

\* the socket closes: frames on their way to it are lost
SocketCloses(s) ==
    /\ OnClose(s)
    /\ inbox' = [inbox EXCEPT ![s] = <<>>]
    /\ gap' = IF \E i \in 1..Len(inbox[s]) : IsQuestionFrame(inbox[s][i]) THEN "missed"
              ELSE IF gap = "none" THEN "dropped" ELSE gap
    /\ UNCHANGED <<srvQuestions, srvLedger, srvChanges, roomFetch, qFetch, post, vote,
                   submits, votedQuestions, storedVoted, voteRequests, acts, grp>>

\* the effect on lastMessage of useRoomLogic: the room query for a status or
\* extension event, the question queries for every event
RefetchesRoom(type) == type \in {"ROOM_STATUS_UPDATE", "ROOM_EXTENDED"}

EffectRoomLogic ==
    /\ roomFetch' = IF RefetchesRoom(lastMessage) THEN "sent" ELSE roomFetch
    /\ qFetch' = InvalidateQuestions(qFetch)

\* the effect on lastMessage of RoomPage: the question queries
EffectRoomPage ==
    /\ roomFetch' = roomFetch
    /\ qFetch' = InvalidateQuestions(qFetch)

RealTimeEffect ==
    /\ effectPending
    /\ effectPending' = FALSE
    /\ IF lastMessage # NoMsg /\ room.ok
       THEN IF view = "useRoomLogic" THEN EffectRoomLogic ELSE EffectRoomPage
       ELSE UNCHANGED <<roomFetch, qFetch>>
    /\ UNCHANGED <<mounted, roomId, roomChanges, status, lastMessage,
                   wsRef, reconnectTimeoutRef, sockets, timers>>
    /\ UNCHANGED <<srvQuestions, srvLedger, srvChanges, inbox, post, vote, submits,
                   votedQuestions, storedVoted, voteRequests, acts, gap, grp>>

(***************************************************************************)
(* The mutations.  A mutation is pending from mutate() until its callbacks *)
(* have run; the callbacks read the sortBy of the latest render.           *)
(***************************************************************************)
\* the ghost grp when a mutation starts next to the other one
GrpOnMutate(other) ==
    IF InFlight(other) /\ grp.clean THEN [grp EXCEPT !.overlap = TRUE]
    ELSE [base |-> cache[sortBy], clean |-> ~InFlight(other), overlap |-> FALSE]

\* a mutation that retries once after a failure
ShouldRetryOnce(failureCount) == failureCount < 1

\* the mutations carry no retry option and the QueryClient no default options:
\* a failed mutation request is not sent again
ShouldRetry(failureCount) == FALSE

\* the request of mutation m fails: it is sent again or the mutation fails
RequestFails(m) ==
    IF ShouldRetry(m.requests - 1) THEN [m EXCEPT !.requests = @ + 1]
    ELSE [m EXCEPT !.st = "fail"]

\* the form's onSubmit calls postMutation.mutate
MaySubmit == SubmitOffered /\ ~InFlight(post)

\* postMutation: mutate() and onMutate
PostMutate ==
    /\ MaySubmit
    /\ acts < MaxActs
    /\ acts' = acts + 1
    /\ submits' = submits + 1
    /\ qFetch' = CancelQueries(qFetch, AllModes)
    /\ post' = [st |-> "sent", prev |-> cache[sortBy], tempId |-> -(submits + 1),
                newQ |-> Placeholder(0), toasts |-> 0, requests |-> 1]
    /\ Rerender(IF cache[sortBy].ok
                THEN [cache EXCEPT ![sortBy].list = OptimisticSubmit(@, sortBy, -(submits + 1))]
                ELSE cache, sortBy)
    /\ grp' = GrpOnMutate(vote)
    /\ UNCHANGED <<view, sortBy, activeTab, dashQuestions>>
    /\ UNCHANGED <<srvQuestions, srvLedger, srvChanges, inbox, roomFetch, vote,
                   votedQuestions, storedVoted, voteRequests, gap>>

\* Question Store submit(room, content, voter): accepted while the room is open
StoreSubmit ==
    /\ post.st = "sent"
    /\ srvRoom.status # "ENDED" /\ now < srvRoom.expires_at
    /\ srvQuestions' = Append(srvQuestions,
          [id |-> Len(srvQuestions) + 1, votes |-> 0, created_at |-> MaxCreated + 1,
           is_answered |-> FALSE])
    /\ post' = [post EXCEPT !.st = "ok",
                            !.newQ = [id |-> Len(srvQuestions) + 1, votes |-> 0,
                                      created_at |-> MaxCreated + 1, is_answered |-> FALSE]]
    /\ inbox' = Publish(inbox, "QUESTION_CREATED")
    /\ gap' = GapAfterPublish
    /\ UNCHANGED <<srvLedger, srvChanges, roomFetch, qFetch, vote, submits,
                   votedQuestions, storedVoted, voteRequests, acts, grp>>

\* the request is refused or lost
PostFails ==
    /\ post.st = "sent"
    /\ post' = RequestFails(post)
    /\ UNCHANGED <<srvQuestions, srvLedger, srvChanges, inbox, roomFetch, qFetch, vote,
                   submits, votedQuestions, storedVoted, voteRequests, acts, gap, grp>>

\* onSuccess of useRoomLogic's postMutation: the placeholder becomes the real question
ReplaceOptimistic(c, tempId, newQ) ==
    IF c[sortBy].ok
    THEN [c EXCEPT ![sortBy].list =
            [i \in 1..Len(@) |-> IF @[i].id = tempId THEN newQ ELSE @[i]]]
    ELSE c

\* an onError that leaves the query data as it is
RollbackNothing(c, prev) == c

\* onError: the snapshot, when there is one, becomes the query data
Rollback(c, prev) ==
    IF prev.ok THEN [c EXCEPT ![sortBy] = prev] ELSE c

PostOnSuccess ==
    /\ post.st = "ok"
    /\ post' = [post EXCEPT !.st = "success"]
    /\ IF view = "useRoomLogic"
       THEN /\ Rerender(ReplaceOptimistic(cache, post.tempId, post.newQ), sortBy)
            /\ qFetch' = qFetch
       ELSE /\ Rerender(cache, sortBy)
            /\ qFetch' = InvalidateQuestions(qFetch)
    /\ grp' = [grp EXCEPT !.clean = FALSE]
    /\ UNCHANGED <<view, sortBy, activeTab, dashQuestions>>
    /\ UNCHANGED <<srvQuestions, srvLedger, srvChanges, inbox, roomFetch, vote, submits,
                   votedQuestions, storedVoted, voteRequests, acts, gap>>

\* onError: rollback and toast.error("Failed to post question")
PostOnError ==
    /\ post.st = "fail"
    /\ post' = [post EXCEPT !.st = "error", !.toasts = @ + 1]
    /\ Rerender(Rollback(cache, post.prev), sortBy)
    /\ qFetch' = IF view = "useRoomLogic" THEN qFetch ELSE InvalidateQuestions(qFetch)
    /\ UNCHANGED <<view, sortBy, activeTab, dashQuestions>>
    /\ UNCHANGED <<srvQuestions, srvLedger, srvChanges, inbox, roomFetch, vote, submits,
                   votedQuestions, storedVoted, voteRequests, acts, gap, grp>>

\* a vote button whose onClick does not look at votedQuestions
MayVoteUnchecked(questionId) ==
    /\ VoteOffered
    /\ ~InFlight(vote)

\* the vote button's onClick calls voteMutation.mutate
MayVote(questionId) ==
    /\ questionId \notin votedQuestions
    /\ VoteOffered
    /\ ~InFlight(vote)

\* voteMutation: mutate() and onMutate
VoteMutate(questionId) ==
    /\ HasId(shown, questionId)
    /\ MayVote(questionId)
    /\ acts < MaxActs
    /\ acts' = acts + 1
    /\ voteRequests' = [voteRequests EXCEPT ![questionId] = @ + 1]
    /\ qFetch' = CancelQueries(qFetch, {sortBy})
    /\ vote' = [st |-> "sent", prev |-> cache[sortBy], q |-> questionId, toasts |-> 0,
                requests |-> 1]
    /\ Rerender(IF cache[sortBy].ok
                THEN [cache EXCEPT ![sortBy].list = OptimisticVote(@, questionId)]
                ELSE cache, sortBy)
    /\ votedQuestions' = votedQuestions \cup {questionId}
    /\ storedVoted' = IF questionId \in votedQuestions THEN storedVoted
                      ELSE votedQuestions \cup {questionId}
    /\ grp' = GrpOnMutate(post)
    /\ UNCHANGED <<view, sortBy, activeTab, dashQuestions>>
    /\ UNCHANGED <<srvQuestions, srvLedger, srvChanges, inbox, roomFetch, post, submits,
                   gap>>

\* Question Store vote(room, question, voter): one vote per voter and question,
\* while the room is open
StoreVote ==
    /\ vote.st = "sent"
    /\ srvRoom.status # "ENDED" /\ now < srvRoom.expires_at
    /\ vote.q \notin srvLedger
    /\ \E i \in 1..Len(srvQuestions) :
         /\ srvQuestions[i].id = vote.q
         /\ srvQuestions' = [srvQuestions EXCEPT ![i].votes = @ + 1]
    /\ srvLedger' = srvLedger \cup {vote.q}
    /\ vote' = [vote EXCEPT !.st = "ok"]
    /\ inbox' = Publish(inbox, "QUESTION_UPDATED")
    /\ gap' = GapAfterPublish
    /\ UNCHANGED <<srvChanges, roomFetch, qFetch, post, submits, votedQuestions,
                   storedVoted, voteRequests, acts, grp>>

\* the request is refused or lost
VoteFails ==
    /\ vote.st = "sent"
    /\ vote' = RequestFails(vote)
    /\ UNCHANGED <<srvQuestions, srvLedger, srvChanges, inbox, roomFetch, qFetch, post,
                   submits, votedQuestions, storedVoted, voteRequests, acts, gap, grp>>

VoteOnSuccess ==
    /\ vote.st = "ok"
    /\ vote' = [vote EXCEPT !.st = "success"]
    /\ Rerender(cache, sortBy)
    /\ qFetch' = IF view = "useRoomLogic" THEN qFetch ELSE InvalidateQuestions(qFetch)
    /\ grp' = [grp EXCEPT !.clean = FALSE]
    /\ UNCHANGED <<view, sortBy, activeTab, dashQuestions>>
    /\ UNCHANGED <<srvQuestions, srvLedger, srvChanges, inbox, roomFetch, post, submits,
                   votedQuestions, storedVoted, voteRequests, acts, gap>>

\* useRoomLogic's voteMutation has an onError, RoomPage's has onSettled only;
\* neither shows a toast
VoteOnError ==
    /\ vote.st = "fail"
    /\ vote' = [vote EXCEPT !.st = "error"]
    /\ IF view = "useRoomLogic"
       THEN /\ Rerender(Rollback(cache, vote.prev), sortBy)
            /\ qFetch' = qFetch
       ELSE /\ Rerender(cache, sortBy)
            /\ qFetch' = InvalidateQuestions(qFetch)
    /\ UNCHANGED <<view, sortBy, activeTab, dashQuestions>>
    /\ UNCHANGED <<srvQuestions, srvLedger, srvChanges, inbox, roomFetch, post, submits,
                   votedQuestions, storedVoted, voteRequests, acts, gap, grp>>

\* the page is loaded again: memory is lost, localStorage stays
Reload ==
    /\ acts < MaxActs
    /\ acts' = acts + 1
    /\ mounted' = TRUE /\ roomId' = NoRoom /\ status' = "disconnected"
    /\ lastMessage' = NoMsg /\ effectPending' = FALSE
    /\ wsRef' = 0 /\ reconnectTimeoutRef' = 0
    /\ sockets' = [s \in SockIds |-> FreeSock]
    /\ timers' = [t \in TimerIds |-> FreeTimer]
    /\ roomChanges' = roomChanges
    /\ inbox' = [s \in SockIds |-> <<>>]
    /\ room' = NoRecord
    /\ rendered' = RenderPage(NoRecord, now)
    /\ roomFetch' = "sent"
    /\ qFetch' = [m \in AllModes |-> IdleFetch]
    /\ cache' = [m \in AllModes |-> NoList]
    /\ shown' = <<>>
    /\ sortBy' = "top"
    /\ post' = IdlePost /\ vote' = IdleVote
    /\ votedQuestions' = storedVoted
    /\ grp' = [grp EXCEPT !.clean = FALSE]
    /\ UNCHANGED <<now, srvRoom, view, activeTab, dashQuestions>>
    /\ UNCHANGED <<srvQuestions, srvLedger, srvChanges, submits, storedVoted,
                   voteRequests, gap>>

(***************************************************************************)
(* useDashboardLogic: the organizer's dashboard query, its effect on        *)
(* lastMessage, and the reply, markAnswered and session-control mutations.  *)
(* A dashboard question is a record [id, is_answered, organizer_reply].     *)
(***************************************************************************)
NoReply == "null"
\* the text this organizer types, and the text of another organizer session
OwnText == "a"
OtherText == "b"
Actions == {"start", "end", "extend"}

NoData == [ok |-> FALSE, room |-> [status |-> "WAITING", expires_at |-> 0], questions |-> <<>>]
Data(rm, qs) == [ok |-> TRUE, room |-> rm, questions |-> qs]
IdleDash == [st |-> "idle", data |-> NoData]
SentDash == [st |-> "sent", data |-> NoData]
\* prev is the context onMutate returned, kept until the callbacks have run
IdleMutation == [st |-> "idle", prev |-> NoData, q |-> 0, text |-> NoReply, action |-> "none",
                 toasts |-> 0, requests |-> 0]

\* a mutation whose callbacks have run: its variables and context are not
\* read again
Settled(m, st) == [IdleMutation EXCEPT !.st = st, !.toasts = m.toasts, !.requests = m.requests]

\* the questions the organizer's room starts with
DashSeed ==
    << [id |-> 1, is_answered |-> FALSE, organizer_reply |-> NoReply],
       [id |-> 2, is_answered |-> FALSE, organizer_reply |-> NoReply] >>

DashIdle ==
    /\ dSrvQuestions = <<>> /\ dData = NoData /\ dFetch = IdleDash /\ dEvent = FALSE
    /\ reply = IdleMutation /\ mark = IdleMutation /\ control = IdleMutation
    /\ dActs = 0

\* two clients that have received nothing yet
NoEvent == [type |-> NoMsg, data |-> Placeholder(0)]
IdleRun == [lastMessage |-> NoEvent, pending |-> FALSE, roomSent |-> FALSE,
            listSent |-> FALSE, list |-> <<>>]
TwinIdle == twin = <<IdleRun, IdleRun>>
PageIdle == recon = {} /\ orphans = {} /\ late = {}

\* components that take no part in a specification hold nothing
MoreIdle ==
    /\ calls = <<>> /\ last = <<>> /\ bcast = <<>>
    /\ form = <<>> /\ landing = <<>> /\ device = <<>>

LastIdle == voted = <<>> /\ mine = <<>> /\ modal = <<>> /\ heard = <<>>

ExtIdle == DashIdle /\ TwinIdle /\ PageIdle /\ MoreIdle /\ LastIdle

\* the dashboard mounts: the query is enabled and fetches
DashInit ==
    /\ dSrvQuestions = DashSeed /\ dData = NoData /\ dFetch = SentDash /\ dEvent = FALSE
    /\ reply = IdleMutation /\ mark = IdleMutation /\ control = IdleMutation
    /\ dActs = 0

\* Question Store reply: sets the reply and the answered flag
SrvReply(qs, questionId, text) ==
    [i \in 1..Len(qs) |-> IF qs[i].id = questionId
                          THEN [qs[i] EXCEPT !.organizer_reply = text, !.is_answered = TRUE]
                          ELSE qs[i]]

\* Question Store markAnswered: sets the answered flag only
SrvMark(qs, questionId) ==
    [i \in 1..Len(qs) |-> IF qs[i].id = questionId
                          THEN [qs[i] EXCEPT !.is_answered = TRUE]
                          ELSE qs[i]]

\* a reply that writes the text and leaves the answered flag alone
ReplyTextOnly(qs, questionId, text) ==
    [i \in 1..Len(qs) |-> IF qs[i].id = questionId
                          THEN [qs[i] EXCEPT !.organizer_reply = text]
                          ELSE qs[i]]

\* replyMutation.onMutate's map over old.questions
ReplyQuestions(qs, questionId, text) ==
    [i \in 1..Len(qs) |-> IF qs[i].id = questionId
                          THEN [qs[i] EXCEPT !.organizer_reply = text, !.is_answered = TRUE]
                          ELSE qs[i]]

\* a markAnswered that also drops the reply
MarkAndClear(qs, questionId) ==
    [i \in 1..Len(qs) |-> IF qs[i].id = questionId
                          THEN [qs[i] EXCEPT !.is_answered = TRUE, !.organizer_reply = NoReply]
                          ELSE qs[i]]

\* markAnsweredMutation.onMutate's map over old.questions
MarkAnswered(qs, questionId) ==
    [i \in 1..Len(qs) |-> IF qs[i].id = questionId
                          THEN [qs[i] EXCEPT !.is_answered = TRUE]
                          ELSE qs[i]]

\* sessionControlMutation.onMutate's new room
ControlRoom(rm, action, minutes) ==
    IF action = "start" THEN [rm EXCEPT !.status = "LIVE"]
    ELSE IF action = "end" THEN [rm EXCEPT !.status = "ENDED"]
    ELSE IF action = "extend" /\ minutes # 0 THEN [rm EXCEPT !.expires_at = @ + minutes]
    ELSE rm

\* setQueryData(key, old => old ? {...old, questions} : old)
SetQuestions(old, qs) == IF old.ok THEN [old EXCEPT !.questions = qs] ELSE old
SetRoom(old, rm) == IF old.ok THEN [old EXCEPT !.room = rm] ELSE old

\* onError: context.previousData, when there is one, becomes the query data
RestoreData(old, prev) == IF prev.ok THEN prev ELSE old

DashHasId(qs, questionId) == \E i \in 1..Len(qs) : qs[i].id = questionId
DashUnanswered(qs, questionId) ==
    \E i \in 1..Len(qs) : qs[i].id = questionId /\ ~qs[i].is_answered

areControlsLocked ==
    dData.ok /\ (dData.room.status = "ENDED" \/ dData.room.expires_at < now)

\* the Question Store and the Room Registry accept organizer writes while the
\* room is neither ended nor expired
SrvOpen == srvRoom.status # "ENDED" /\ now < srvRoom.expires_at

\* a settle that leaves the dashboard query as it is
KeepDashboard(f) == f
\* queryClient.invalidateQueries(['dashboard', code, token]): the query refetches,
\* a fetch under way is replaced
InvalidateDashboard(f) == SentDash

\* the server answers the dashboard request with the room and its questions
DashAnswered ==
    /\ dFetch.st = "sent"
    /\ dFetch' = [st |-> "resp",
                  data |-> Data([status |-> srvRoom.status, expires_at |-> srvRoom.expires_at],
                                dSrvQuestions)]
    /\ UNCHANGED <<dSrvQuestions, dData, dEvent, reply, mark, control, dActs>>

\* the response becomes the query data
DashArrives ==
    /\ dFetch.st = "resp"
    /\ dData' = dFetch.data
    /\ dFetch' = IdleDash
    /\ UNCHANGED <<dSrvQuestions, dEvent, reply, mark, control, dActs>>

\* the effect on lastMessage: any message invalidates the dashboard query
DashEffect ==
    /\ dEvent
    /\ dEvent' = FALSE
    /\ dFetch' = InvalidateDashboard(dFetch)
    /\ UNCHANGED <<dSrvQuestions, dData, reply, mark, control, dActs>>

\* another organizer session replies to a question
OtherReply(questionId, text) ==
    /\ dActs < MaxActs
    /\ dActs' = dActs + 1
    /\ SrvOpen
    /\ DashHasId(dSrvQuestions, questionId)
    /\ dSrvQuestions' = SrvReply(dSrvQuestions, questionId, text)
    /\ dEvent' = TRUE
    /\ UNCHANGED <<dData, dFetch, reply, mark, control>>

\* replyMutation: mutate() and onMutate
ReplyMutate(questionId, text) ==
    /\ dData.ok /\ DashHasId(dData.questions, questionId)
    /\ ~InFlight(reply)
    /\ dActs < MaxActs
    /\ dActs' = dActs + 1
    /\ dFetch' = IdleDash
    /\ reply' = [st |-> "sent", prev |-> dData, q |-> questionId, text |-> text,
                 action |-> "none", toasts |-> 0, requests |-> 1]
    /\ dData' = SetQuestions(dData, ReplyQuestions(dData.questions, questionId, text))
    /\ UNCHANGED <<dSrvQuestions, dEvent, mark, control>>

StoreReply ==
    /\ reply.st = "sent"
    /\ SrvOpen
    /\ dSrvQuestions' = SrvReply(dSrvQuestions, reply.q, reply.text)
    /\ reply' = [reply EXCEPT !.st = "ok"]
    /\ dEvent' = TRUE
    /\ UNCHANGED <<dData, dFetch, mark, control, dActs>>

ReplyFails ==
    /\ reply.st = "sent"
    /\ reply' = RequestFails(reply)
    /\ UNCHANGED <<dSrvQuestions, dData, dFetch, dEvent, mark, control, dActs>>

\* onSettled after a success
ReplyOnSuccess ==
    /\ reply.st = "ok"
    /\ reply' = Settled(reply, "success")
    /\ dFetch' = InvalidateDashboard(dFetch)
    /\ UNCHANGED <<dSrvQuestions, dData, dEvent, mark, control, dActs>>

\* onError, toast.error('Failed to send reply'), then onSettled
ReplyOnError ==
    /\ reply.st = "fail"
    /\ reply' = [Settled(reply, "error") EXCEPT !.toasts = @ + 1]
    /\ dData' = RestoreData(dData, reply.prev)
    /\ dFetch' = InvalidateDashboard(dFetch)
    /\ UNCHANGED <<dSrvQuestions, dEvent, mark, control, dActs>>

\* markAnsweredMutation: the button of an unanswered question, mutate() and onMutate
MarkMutate(questionId) ==
    /\ dData.ok /\ DashUnanswered(dData.questions, questionId)
    /\ ~areControlsLocked
    /\ ~InFlight(mark)
    /\ dActs < MaxActs
    /\ dActs' = dActs + 1
    /\ dFetch' = IdleDash
    /\ mark' = [st |-> "sent", prev |-> dData, q |-> questionId, text |-> NoReply,
                action |-> "none", toasts |-> 0, requests |-> 1]
    /\ dData' = SetQuestions(dData, MarkAnswered(dData.questions, questionId))
    /\ UNCHANGED <<dSrvQuestions, dEvent, reply, control>>

StoreMark ==
    /\ mark.st = "sent"
    /\ SrvOpen
    /\ dSrvQuestions' = SrvMark(dSrvQuestions, mark.q)
    /\ mark' = [mark EXCEPT !.st = "ok"]
    /\ dEvent' = TRUE
    /\ UNCHANGED <<dData, dFetch, reply, control, dActs>>

MarkFails ==
    /\ mark.st = "sent"
    /\ mark' = RequestFails(mark)
    /\ UNCHANGED <<dSrvQuestions, dData, dFetch, dEvent, reply, control, dActs>>

\* onSettled after a success
MarkOnSuccess ==
    /\ mark.st = "ok"
    /\ mark' = Settled(mark, "success")
    /\ dFetch' = InvalidateDashboard(dFetch)
    /\ UNCHANGED <<dSrvQuestions, dData, dEvent, reply, control, dActs>>

\* onError, toast.error('Failed to update status'), then onSettled
MarkOnError ==
    /\ mark.st = "fail"
    /\ mark' = [Settled(mark, "error") EXCEPT !.toasts = @ + 1]
    /\ dData' = RestoreData(dData, mark.prev)
    /\ dFetch' = InvalidateDashboard(dFetch)
    /\ UNCHANGED <<dSrvQuestions, dEvent, reply, control, dActs>>

\* sessionControlMutation: mutate() and onMutate; extend is by one clock unit
ControlMutate(action) ==
    /\ dData.ok
    /\ ~InFlight(control)
    /\ dActs < MaxActs
    /\ dActs' = dActs + 1
    /\ dFetch' = IdleDash
    /\ control' = [st |-> "sent", prev |-> dData, q |-> 0, text |-> NoReply,
                   action |-> action, toasts |-> 0, requests |-> 1]
    /\ dData' = SetRoom(dData, ControlRoom(dData.room, action, 1))
    /\ UNCHANGED <<dSrvQuestions, dEvent, reply, mark>>

StoreControl ==
    /\ control.st = "sent"
    /\ \/ control.action = "start" /\ RegistryStart
       \/ control.action = "end" /\ RegistryEnd
       \/ control.action = "extend" /\ RegistryExtend(1)
    /\ control' = [control EXCEPT !.st = "ok"]
    /\ dEvent' = TRUE
    /\ UNCHANGED <<dSrvQuestions, dData, dFetch, reply, mark, dActs>>

ControlFails ==
    /\ control.st = "sent"
    /\ control' = RequestFails(control)
    /\ UNCHANGED <<dSrvQuestions, dData, dFetch, dEvent, reply, mark, dActs>>

\* onSettled after a success
ControlOnSuccess ==
    /\ control.st = "ok"
    /\ control' = Settled(control, "success")
    /\ dFetch' = InvalidateDashboard(dFetch)
    /\ UNCHANGED <<dSrvQuestions, dData, dEvent, reply, mark, dActs>>

\* onError, toast.error('Failed to update session'), then onSettled
ControlOnError ==
    /\ control.st = "fail"
    /\ control' = [Settled(control, "error") EXCEPT !.toasts = @ + 1]
    /\ dData' = RestoreData(dData, control.prev)
    /\ dFetch' = InvalidateDashboard(dFetch)
    /\ UNCHANGED <<dSrvQuestions, dEvent, reply, mark, dActs>>

(***************************************************************************)
(* Two clients side by side.  Both receive frames of the same type, each    *)
(* with a payload of its own; both get the same answers from the store and  *)
(* make the same local edits.  A frame is a record [type, data]; its data   *)
(* is a question.                                                           *)
(***************************************************************************)
Payloads == {Placeholder(MaxLen + 1), [Placeholder(MaxLen + 2) EXCEPT !.is_answered = TRUE]}
Views == {"useRoomLogic", "RoomPage", "useDashboardLogic"}

\* the answers the store can give
Snapshots == {<<>>, SeedStore, Tail(SeedStore), OptimisticVote(SeedStore, SeedStore[1].id)}

\* ws.onmessage: JSON.parse and setLastMessage; a frame that does not parse is logged
OnMessageRun(run, frame) ==
    IF frame.type = "garbage" THEN run
    ELSE [run EXCEPT !.lastMessage = frame, !.pending = TRUE]

\* an effect that patches the list with the question the event carries
PatchFromPayload(list, msg) ==
    IF HasId(list, msg.data.id) THEN list ELSE Append(list, msg.data)

\* what the effects on lastMessage do to the cached list: nothing, they only
\* invalidate queries
ApplyEvent(list, msg) == list

\* the effect on lastMessage of view v, with the room loaded
RunEffect(v, run) ==
    IF ~run.pending THEN run
    ELSE [run EXCEPT !.pending = FALSE,
                     !.roomSent = IF v = "useRoomLogic" /\ RefetchesRoom(run.lastMessage.type)
                                  THEN TRUE ELSE @,
                     !.listSent = TRUE,
                     !.list = ApplyEvent(@, run.lastMessage)]

\* the answer to a list request replaces the list
RunSnapshot(run, l) ==
    IF run.listSent THEN [run EXCEPT !.list = l, !.listSent = FALSE] ELSE run

TwinInit ==
    twin = << [IdleRun EXCEPT !.list = SeedStore], [IdleRun EXCEPT !.list = SeedStore] >>

TwinSortInit ==
    /\ view \in Views
    /\ sortBy = "top" /\ activeTab = "unanswered"
    /\ cache = [m \in AllModes |-> NoList]
    /\ dashQuestions = <<>>
    /\ shown = <<>>

\* both clients receive a frame of this type, each with its own payload
TwinMessage(type, d1, d2) ==
    twin' = << OnMessageRun(twin[1], [type |-> type, data |-> d1]),
               OnMessageRun(twin[2], [type |-> type, data |-> d2]) >>

TwinEffect ==
    /\ \E i \in 1..2 : twin[i].pending
    /\ twin' = [i \in 1..2 |-> RunEffect(view, twin[i])]

TwinSnapshot(l) ==
    /\ \E i \in 1..2 : twin[i].listSent
    /\ twin' = [i \in 1..2 |-> RunSnapshot(twin[i], l)]

TwinRoomArrives ==
    /\ \E i \in 1..2 : twin[i].roomSent
    /\ twin' = [i \in 1..2 |-> [twin[i] EXCEPT !.roomSent = FALSE]]

\* both attendees vote for the same listed question
TwinVote(questionId) ==
    /\ view # "useDashboardLogic"
    /\ \A i \in 1..2 : HasId(twin[i].list, questionId)
    /\ \A i \in 1..2 : \A k \in 1..Len(twin[i].list) : twin[i].list[k].votes <= MaxVotes
    /\ twin' = [i \in 1..2 |-> [twin[i] EXCEPT !.list = OptimisticVote(@, questionId),
                                               !.listSent = FALSE]]

(***************************************************************************)
(* Leaving the room page and coming back.  The QueryClient is created once  *)
(* for the App, outside every component: its queries and their data outlive *)
(* the page; a request under way is not aborted, because the queryFn does   *)
(* not pass the abort signal on.                                            *)
(***************************************************************************)
FetchUnderWay(m) == qFetch[m].st \in {"sent", "resp"}

\* the router unmounts the page: the socket effect's cleanup runs, the query
\* observers unsubscribe
LeavePage ==
    /\ mounted /\ room.ok /\ roomFetch = "idle"
    /\ ~InFlight(post) /\ ~InFlight(vote)
    /\ acts < MaxActs
    /\ acts' = acts + 1
    /\ Unmount
    /\ orphans' = {m \in recon : FetchUnderWay(m)}
    /\ UNCHANGED <<recon, late>>
    /\ UNCHANGED <<gateVars, sortVars>>
    /\ UNCHANGED <<srvQuestions, srvLedger, srvChanges, inbox, roomFetch, qFetch, post, vote,
                   submits, votedQuestions, storedVoted, voteRequests, gap, grp>>

\* the router mounts the page again for the same room code: component state
\* is new, the cached room and list are rendered at once, both queries
\* refetch, and a list request still under way is joined, not repeated
ReturnPage ==
    /\ ~mounted
    /\ mounted' = TRUE
    /\ HasFreeSock(sockets)
    /\ sockets' = ConnectSockets(sockets, TheRoom)
    /\ wsRef' = ConnectSock(sockets, TheRoom)
    /\ status' = "connecting"
    /\ lastMessage' = NoMsg /\ effectPending' = FALSE
    /\ reconnectTimeoutRef' = 0
    /\ UNCHANGED <<roomId, roomChanges, timers>>
    /\ sortBy' = "top"
    /\ Rerender(cache, "top")
    /\ roomFetch' = "sent"
    /\ qFetch' = IF FetchUnderWay("top") THEN qFetch
                 ELSE [qFetch EXCEPT !["top"] = SentFetch]
    /\ post' = IdlePost /\ vote' = IdleVote
    /\ votedQuestions' = storedVoted
    /\ grp' = [grp EXCEPT !.clean = FALSE]
    /\ UNCHANGED <<gateVars, view, activeTab, dashQuestions>>
    /\ UNCHANGED <<srvQuestions, srvLedger, srvChanges, inbox, submits, storedVoted,
                   voteRequests, acts, gap>>
    /\ UNCHANGED <<recon, orphans, late>>

\* an answer that arrives for mode m: is it the answer to a request the
\* unmounted page left behind
LateAfterArrival(m) == IF m \in orphans THEN late \cup {m} ELSE late \ {m}

\* the answer for mode m arrives
ArrivalNoted(m) ==
    /\ late' = LateAfterArrival(m)
    /\ orphans' = orphans \ {m}
    /\ recon' = recon \ {m}

\* the effect on lastMessage has run: when it invalidates, the request of the
\* displayed mode is a new one, started by the effect
EffectNoted ==
    IF lastMessage # NoMsg /\ room.ok
    THEN /\ recon' = recon \cup {sortBy}
         /\ orphans' = orphans \ {sortBy}
         /\ late' = late
    ELSE UNCHANGED <<recon, orphans, late>>

(***************************************************************************)
(* Question Store and Vote Dedup Ledger (spec 4.2, 4.3).  The service is   *)
(* no part of the sources; it is modelled from its specification.  calls   *)
(* holds the store of one room and the vote calls made to it, each one     *)
(* first under way and then answered in one transaction.                   *)
(***************************************************************************)
\* vote calls that can be under way together
MaxCalls == 2
\* questions the store accepts
MaxSubmits == 1

CallIds == 1..MaxCalls
StoreQuestions == {1, 2}
VoterIds == {"v1"}
VoteKeys == {TheRoom} \X StoreQuestions \X VoterIds
NoCall == [key |-> <<>>, st |-> "idle"]
NoLast == [op |-> "none", res |-> "none", changed |-> FALSE, status |-> "none", expired |-> FALSE]
Contents == {"", " ", "q"}

StoreInit ==
    /\ calls = [store |-> [votes |-> [q \in StoreQuestions |-> 0], ledger |-> <<>>,
                           questions |-> 0],
                out |-> [c \in CallIds |-> NoCall]]
    /\ last = NoLast

\* the ledger never finds a key
HoldsNoKey(ledger, key) == FALSE
\* the ledger already holds the key
HoldsKey(ledger, key) == \E i \in 1..Len(ledger) : ledger[i] = key

\* tryRecordVote(room, question, voter) -> bool: insert the key unless it is there
tryRecordVote(ledger, key) ==
    IF HoldsKey(ledger, key) THEN [ok |-> FALSE, ledger |-> ledger]
    ELSE [ok |-> TRUE, ledger |-> Append(ledger, key)]

\* only an ended room is closed
ClosedWhenEnded(rm, t) == rm.status = "ENDED"
\* the room takes no more questions or votes: ended, or past its expiry
SessionClosed(rm, t) == rm.status = "ENDED" \/ t >= rm.expires_at

\* vote(room, question_id, voter_id): the ledger's insert and the count's
\* increment are one transaction
Vote(store, rm, t, key) ==
    IF SessionClosed(rm, t) THEN [store |-> store, res |-> "SessionClosed"]
    ELSE LET rec == tryRecordVote(store.ledger, key)
         IN  IF rec.ok
             THEN [store |-> [store EXCEPT !.ledger = rec.ledger,
                                           !.votes[key[2]] = @ + 1],
                   res |-> "ok"]
             ELSE [store |-> store, res |-> "AlreadyVoted"]

\* the content with its blanks removed is empty
IsBlank(content) == content \in {"", " "}

\* submit(room, content, voter_id)
Submit(store, rm, t, content) ==
    IF SessionClosed(rm, t) THEN [store |-> store, res |-> "SessionClosed"]
    ELSE IF IsBlank(content) THEN [store |-> store, res |-> "EmptyContent"]
    ELSE [store |-> [store EXCEPT !.questions = @ + 1], res |-> "ok"]

\* a client sends a vote request
VoteRequest(c, key) ==
    /\ calls.out[c].st = "idle"
    /\ calls' = [calls EXCEPT !.out[c] = [key |-> key, st |-> "pending"]]
    /\ UNCHANGED last

\* the store runs the vote of call c
VoteCall(c) ==
    /\ calls.out[c].st = "pending"
    /\ LET r == Vote(calls.store, srvRoom, now, calls.out[c].key)
       IN  /\ calls' = [calls EXCEPT !.store = r.store, !.out[c].st = r.res]
           /\ last' = [op |-> "vote", res |-> r.res, changed |-> r.store # calls.store,
                       status |-> srvRoom.status, expired |-> now >= srvRoom.expires_at]

\* the store runs a submit
SubmitCall(content) ==
    /\ calls.store.questions < MaxSubmits
    /\ LET r == Submit(calls.store, srvRoom, now, content)
       IN  /\ calls' = [calls EXCEPT !.store = r.store]
           /\ last' = [op |-> "submit", res |-> r.res, changed |-> r.store # calls.store,
                       status |-> srvRoom.status, expired |-> now >= srvRoom.expires_at]

(***************************************************************************)
(* Room Registry (spec 4.1): start, end and extend with their outcomes.    *)
(* The registry is no part of the sources; it is modelled from its         *)
(* specification.  The dashboard's handleExtend is one of its callers.     *)
(* last holds the last call: its arguments, the room before and after, and *)
(* the outcome.                                                            *)
(***************************************************************************)
OrganizerToken == "good"
Tokens == {"good", "bad"}
\* a JavaScript number: NaN, or an integer
NaN == [nan |-> TRUE, n |-> 0]
Num(k) == [nan |-> FALSE, n |-> k]
\* what parseInt makes of the extend modal's two inputs
HourInputs == {NaN} \cup {Num(k) : k \in -1..1}
MinuteInputs == {NaN} \cup {Num(k) : k \in -1..2}

RegistryInit ==
    /\ now = 0
    /\ srvRoom \in [status : {"WAITING"}, starts_at : {0}, expires_at : 1..2]
    /\ room = NoRecord
    /\ rendered = [page |-> "loading", isExpired |-> FALSE]
    /\ last = [op |-> "none", token |-> OrganizerToken, minutes |-> 0,
               before |-> srvRoom, after |-> srvRoom, res |-> "none"]

\* start that does not look at the status
StartAnyStatus(rm, token) ==
    IF token # OrganizerToken THEN [room |-> rm, res |-> "Forbidden"]
    ELSE [room |-> [rm EXCEPT !.status = "LIVE"], res |-> "ok"]
\* start(room, token)
Start(rm, token) ==
    IF token # OrganizerToken THEN [room |-> rm, res |-> "Forbidden"]
    ELSE IF rm.status # "WAITING" THEN [room |-> rm, res |-> "InvalidTransition"]
    ELSE [room |-> [rm EXCEPT !.status = "LIVE"], res |-> "ok"]

\* end(room, token)
End(rm, token) ==
    IF token # OrganizerToken THEN [room |-> rm, res |-> "Forbidden"]
    ELSE IF rm.status = "ENDED" THEN [room |-> rm, res |-> "InvalidTransition"]
    ELSE [room |-> [rm EXCEPT !.status = "ENDED"], res |-> "ok"]

\* extend that does not look at the status
ExtendAnyStatus(rm, token, minutes) ==
    IF token # OrganizerToken THEN [room |-> rm, res |-> "Forbidden"]
    ELSE IF minutes <= 0 THEN [room |-> rm, res |-> "InvalidMinutes"]
    ELSE [room |-> [rm EXCEPT !.expires_at = @ + minutes], res |-> "ok"]
\* extend(room, token, minutes)
Extend(rm, token, minutes) ==
    IF token # OrganizerToken THEN [room |-> rm, res |-> "Forbidden"]
    ELSE IF rm.status # "LIVE" THEN [room |-> rm, res |-> "InvalidTransition"]
    ELSE IF minutes <= 0 THEN [room |-> rm, res |-> "InvalidMinutes"]
    ELSE [room |-> [rm EXCEPT !.expires_at = @ + minutes], res |-> "ok"]

\* the registry answers a call
Answered(op, token, minutes, r) ==
    /\ srvRoom' = r.room
    /\ last' = [op |-> op, token |-> token, minutes |-> minutes,
                before |-> srvRoom, after |-> r.room, res |-> r.res]
    /\ UNCHANGED <<now, room, rendered>>

CallStart(token) == Answered("start", token, 0, Start(srvRoom, token))
CallEnd(token) == Answered("end", token, 0, End(srvRoom, token))
CallExtend(token, minutes) ==
    /\ srvRoom.expires_at + minutes <= MaxExpiry
    /\ Answered("extend", token, minutes, Extend(srvRoom, token, minutes))

\* h * 60 + m of two parseInt results: NaN when either is
TotalMinutes(h, m) == IF h.nan \/ m.nan THEN NaN ELSE Num(h.n * 60 + m.n)
\* totalMinutes > 0, which is false of NaN
IsPositive(x) == ~x.nan /\ x.n > 0

\* handleExtend: the request goes out when the total is positive, and the
\* registry answers it
handleExtend(h, m) ==
    IF IsPositive(TotalMinutes(h, m))
    THEN CallExtend(OrganizerToken, TotalMinutes(h, m).n)
    ELSE UNCHANGED <<gateVars, last>>

(***************************************************************************)
(* Connection Registry / Broadcaster (spec 4.4).  It is no part of the     *)
(* sources; it is modelled from its specification.  bcast holds the        *)
(* room -> connections mapping, the log of published events (each with the *)
(* mapping at publish time and the sends that failed), and the events each *)
(* connection has received.                                                *)
(***************************************************************************)
\* events published
MaxEvents == 2

Conns == {"c1", "c2"}

BcastInit ==
    bcast = [subs |-> [r \in Rooms |-> {}], log |-> <<>>, got |-> [c \in Conns |-> {}]]

\* subscribe(room, connection)
Subscribe(subs, r, c) == [subs EXCEPT ![r] = @ \cup {c}]
\* unsubscribe(room, connection), safe to call twice
Unsubscribe(subs, r, c) == [subs EXCEPT ![r] = @ \ {c}]

\* the connections an event for room r goes to, whatever they subscribed to
EveryConnection(subs, r) == Conns
\* the connections an event for room r goes to
Recipients(subs, r) == subs[r]

\* publish(room, event): best effort; a connection whose send fails is
\* removed from the room's set and the others still get the event
PublishEvent(b, r, failing) ==
    LET e == Len(b.log) + 1
        to == Recipients(b.subs, r)
    IN  [subs |-> [b.subs EXCEPT ![r] = @ \ failing],
         log |-> Append(b.log, [room |-> r, subs |-> b.subs, failed |-> to \cap failing]),
         got |-> [c \in Conns |-> IF c \in to \ failing THEN b.got[c] \cup {e}
                                  ELSE b.got[c]]]

\* a connection is opened for one room and subscribes to it
BcastSubscribe(r, c) ==
    /\ \A r2 \in Rooms : c \notin bcast.subs[r2]
    /\ bcast' = [bcast EXCEPT !.subs = Subscribe(bcast.subs, r, c)]

BcastUnsubscribe(r, c) ==
    bcast' = [bcast EXCEPT !.subs = Unsubscribe(bcast.subs, r, c)]

BcastPublish(r, failing) ==
    /\ Len(bcast.log) < MaxEvents
    /\ bcast' = PublishEvent(bcast, r, failing)

(***************************************************************************)
(* RoomPage's question form.  A text is a sequence of characters; form      *)
(* holds the input's value, whether postMutation is pending, and the        *)
(* contents postMutation.mutate was called with.                            *)
(***************************************************************************)
\* characters the input can hold
MaxText == 3

Chars == {" ", "a"}
IsSpace(ch) == ch = " "

RECURSIVE TrimStart(_)
TrimStart(text) ==
    IF text = <<>> THEN <<>>
    ELSE IF IsSpace(Head(text)) THEN TrimStart(Tail(text))
    ELSE text
RECURSIVE TrimEnd(_)
TrimEnd(text) ==
    IF text = <<>> THEN <<>>
    ELSE IF IsSpace(text[Len(text)]) THEN TrimEnd(SubSeq(text, 1, Len(text) - 1))
    ELSE text

\* the text as it is
NoTrim(text) == text
\* String.prototype.trim
Trim(text) == TrimEnd(TrimStart(text))
\* a string is truthy unless it is empty
Truthy(text) == text # <<>>

FormInit == form = [newQuestion |-> <<>>, isPending |-> FALSE, sent |-> <<>>]

\* onChange: setNewQuestion(e.target.value); the input is disabled while pending
FormType(ch) ==
    /\ ~form.isPending
    /\ Len(form.newQuestion) < MaxText
    /\ form' = [form EXCEPT !.newQuestion = Append(@, ch)]
FormErase ==
    /\ ~form.isPending
    /\ form.newQuestion # <<>>
    /\ form' = [form EXCEPT !.newQuestion = SubSeq(@, 1, Len(@) - 1)]

\* onSubmit: if (newQuestion.trim()) postMutation.mutate(newQuestion); the
\* mutation sends the content and onMutate empties the input
FormSubmit ==
    /\ ~form.isPending
    /\ Len(form.sent) < MaxSubmits
    /\ IF Truthy(Trim(form.newQuestion))
       THEN form' = [newQuestion |-> <<>>, isPending |-> TRUE,
                     sent |-> Append(form.sent, form.newQuestion)]
       ELSE form' = form

\* the request is answered
FormSettled ==
    /\ form.isPending
    /\ form' = [form EXCEPT !.isPending = FALSE]

(***************************************************************************)
(* LandingPage's join form.  landing holds the keys typed so far, the      *)
(* joinCode state, the error message and the route navigated to.           *)
(***************************************************************************)
\* if (joinCode.length < 6)
CodeLength == 6
\* the input's maxLength={6}
InputMaxLength == 6

CodeChars == {"a", "A", "1"}
NoRoute == <<>>
NoError == ""
CodeError == "Code must be at least 6 characters"

\* a character as it is
KeepCase(ch) == ch
\* toUpperCase of one character
UpperChar(ch) == IF ch = "a" THEN "A" ELSE ch
\* String.prototype.toUpperCase
toUpperCase(text) == [i \in 1..Len(text) |-> UpperChar(text[i])]

LandingInit ==
    landing = [typed |-> <<>>, joinCode |-> <<>>, error |-> NoError, route |-> NoRoute]

\* onChange after a key: setJoinCode(e.target.value.toUpperCase()); setError('')
JoinType(ch) ==
    /\ landing.route = NoRoute
    /\ Len(landing.joinCode) < InputMaxLength
    /\ landing' = [landing EXCEPT !.typed = Append(@, ch),
                                  !.joinCode = toUpperCase(Append(@, ch)),
                                  !.error = NoError]
\* onChange after a backspace
JoinErase ==
    /\ landing.route = NoRoute
    /\ landing.joinCode # <<>>
    /\ landing' = [landing EXCEPT !.typed = SubSeq(@, 1, Len(@) - 1),
                                  !.joinCode =
                                      toUpperCase(SubSeq(@, 1, Len(@) - 1)),
                                  !.error = NoError]

\* handleJoin: the route is "/r/" and then the code
handleJoin ==
    /\ landing.route = NoRoute
    /\ IF Len(landing.joinCode) < CodeLength
       THEN landing' = [landing EXCEPT !.error = CodeError]
       ELSE landing' = [landing EXCEPT !.route = toUpperCase(landing.joinCode)]

(***************************************************************************)
(* The anonymous voter id.  device holds local storage's                    *)
(* 'hushhour_voter_id' item, the voterId state of each open page of the     *)
(* device, the ids crypto.randomUUID has produced, and the voter_id of each *)
(* request sent.                                                            *)
(***************************************************************************)
Tabs == {"t1", "t2"}
NoId == "none"
\* what crypto.randomUUID can return; an id never comes twice
Uuids == {"u1", "u2", "u3"}

DeviceInit ==
    /\ device \in [stored : {NoId, "u0"}, voterId : {[t \in Tabs |-> NoId]},
                   generated : {{}}, requests : {<<>>}]

\* a new id whatever is stored
AlwaysNew(stored, fresh) == fresh
\* useState's initializer: the stored id, or a new one when there is none
InitialVoterId(stored, fresh) == IF stored = NoId THEN fresh ELSE stored

\* a page mounts: the initializer runs and stores the id it made
PageMount(t, fresh) ==
    /\ device.voterId[t] = NoId
    /\ fresh \notin device.generated
    /\ LET id == InitialVoterId(device.stored, fresh)
       IN  device' = [device EXCEPT
                          !.voterId[t] = id,
                          !.stored = IF id = fresh THEN fresh ELSE @,
                          !.generated = IF id = fresh THEN @ \cup {fresh} ELSE @]

\* the page is closed or reloaded
PageUnmount(t) ==
    /\ device.voterId[t] # NoId
    /\ device' = [device EXCEPT !.voterId[t] = NoId]

\* postMutation.mutationFn and voteMutation.mutationFn: { ..., voter_id: voterId }
SendRequest(t, kind) ==
    /\ device.voterId[t] # NoId
    /\ Len(device.requests) < MaxActs
    /\ device' = [device EXCEPT
                      !.requests = Append(@, [kind |-> kind, voter_id |-> device.voterId[t]])]

(***************************************************************************)
(* The voted set of useRoomLogic.  voted holds the votedQuestions state,   *)
(* the value of it that the last render gave to the handlers, the copy in  *)
(* local storage, whether a vote is pending now and at the last render,    *)
(* and the ids this client has issued a vote for.                          *)
(***************************************************************************)
\* useState's initializer reads the stored copy of an earlier visit
VotedInit ==
    \E old \in {{}, {MaxLen}} :
        voted = [state |-> old, seen |-> old, stored |-> old, isPending |-> FALSE,
                 seenPending |-> FALSE, issued |-> {}]

\* the component renders: the handlers close over the current state
VotedRender ==
    /\ voted.seen # voted.state \/ voted.seenPending # voted.isPending
    /\ voted' = [voted EXCEPT !.seen = voted.state, !.seenPending = voted.isPending]

\* the vote button of question q, as the last render made it, and onMutate:
\* newVoted = [...votedQuestions, questionId] of that render's votedQuestions
VotedIssue(q) ==
    /\ q \notin voted.seen
    /\ ~voted.seenPending
    /\ voted' = [voted EXCEPT !.state = voted.seen \cup {q},
                              !.stored = voted.seen \cup {q},
                              !.isPending = TRUE,
                              !.issued = @ \cup {q}]

\* the vote request is answered; the set is not touched
VotedSettles ==
    /\ voted.isPending
    /\ voted' = [voted EXCEPT !.isPending = FALSE]

(***************************************************************************)
(* "My questions" of useRoomLogic.  mine holds the myQuestionIds state,    *)
(* the 'my_questions_<code>' item of local storage, the optimistic ids of  *)
(* the submits under way, the server ids of the submits that succeeded,    *)
(* and the number of submits so far.  Temporary ids are negative, server   *)
(* ids positive.                                                           *)
(***************************************************************************)
\* useState's initializer reads the item an earlier visit stored
MineInit ==
    \E old \in SUBSET {MaxActs + 1, MaxActs + 2} :
        mine = [ids |-> old, stored |-> old, pending |-> {}, confirmed |-> {}, n |-> 0]

\* onSuccess: prev.filter(id => id !== context.optimisticId), then the new id
ConfirmedIds(prev, optimisticId, id) == (prev \ {optimisticId}) \cup {id}

\* postMutation.onMutate: setMyQuestionIds(prev => [...prev, optimisticQuestion.id]);
\* the form is disabled while a submit is pending
MineMutate ==
    /\ mine.n < MaxActs
    /\ mine.pending = {}
    /\ mine' = [mine EXCEPT !.n = @ + 1,
                            !.ids = @ \cup {-(mine.n + 1)},
                            !.pending = @ \cup {-(mine.n + 1)}]

\* postMutation.onSuccess: the new ids become the state and the stored item
MineOnSuccess(optimisticId) ==
    /\ optimisticId \in mine.pending
    /\ LET newIds == ConfirmedIds(mine.ids, optimisticId, -optimisticId)
       IN  mine' = [mine EXCEPT !.ids = newIds,
                                !.stored = newIds,
                                !.pending = @ \ {optimisticId},
                                !.confirmed = @ \cup {-optimisticId}]

\* postMutation.onError: the cached list is restored, the ids are not
MineOnError(optimisticId) ==
    /\ optimisticId \in mine.pending
    /\ mine' = [mine EXCEPT !.pending = @ \ {optimisticId}]

\* the page is loaded again: useState's initializer reads the stored item
MineReload ==
    /\ mine.pending = {}
    /\ mine.ids # mine.stored
    /\ mine' = [mine EXCEPT !.ids = mine.stored]

(***************************************************************************)
(* The dashboard's session controls as DashboardPage offers them: GO LIVE  *)
(* while the displayed status is WAITING, Extend and End while it is LIVE, *)
(* all disabled while sessionControlMutation is pending.  modal is         *)
(* showExtendModal.                                                        *)
(***************************************************************************)
\* GO LIVE
ClickStart ==
    /\ dData.ok /\ dData.room.status = "WAITING"
    /\ ControlMutate("start")
    /\ modal' = FALSE

\* End
ClickEnd ==
    /\ dData.ok /\ dData.room.status = "LIVE"
    /\ ControlMutate("end")
    /\ modal' = FALSE

\* Extend: setShowExtendModal(true)
OpenExtendModal ==
    /\ dData.ok /\ dData.room.status = "LIVE"
    /\ ~InFlight(control)
    /\ ~modal
    /\ modal' = TRUE
    /\ UNCHANGED dashVars

\* Cancel, or the dialog's onClose
CloseExtendModal ==
    /\ modal
    /\ modal' = FALSE
    /\ UNCHANGED dashVars

\* Confirm Extension: handleExtend with a positive total; onMutate closes the dialog
ConfirmExtend ==
    /\ modal
    /\ ControlMutate("extend")
    /\ modal' = FALSE

\* another session that holds the organizer token ends the room
OtherEnd ==
    /\ dActs < MaxActs
    /\ dActs' = dActs + 1
    /\ RegistryEnd
    /\ dEvent' = TRUE
    /\ UNCHANGED <<dSrvQuestions, dData, dFetch, reply, mark, control>>

(***************************************************************************)
(* Specifications.                                                         *)
(***************************************************************************)
SockIdle ==
    /\ mounted = TRUE /\ roomId = NoRoom /\ roomChanges = 0
    /\ status = "disconnected" /\ lastMessage = NoMsg /\ effectPending = FALSE
    /\ wsRef = 0 /\ reconnectTimeoutRef = 0
    /\ sockets = [s \in SockIds |-> FreeSock]
    /\ timers = [t \in TimerIds |-> FreeTimer]

GateIdle ==
    /\ now = 0
    /\ srvRoom = [status |-> "LIVE", starts_at |-> 0, expires_at |-> 1]
    /\ room = NoRecord
    /\ rendered = [page |-> "loading", isExpired |-> FALSE]

SortIdle ==
    /\ view = "useRoomLogic" /\ sortBy = "top" /\ activeTab = "unanswered"
    /\ cache = [m \in AllModes |-> NoList]
    /\ dashQuestions = <<>>
    /\ shown = <<>>

\* useRoomSocket on its own, under every sequence of room ids and socket events
SocketInit == SockInit /\ GateIdle /\ SortIdle /\ SyncIdle /\ ExtIdle
SocketNext ==
    \/ \E r \in Rooms \cup {NoRoom} : SetRoomId(r) /\ UNCHANGED <<gateVars, sortVars, syncVars>> /\ UNCHANGED extVars
    \/ Unmount /\ UNCHANGED <<gateVars, sortVars, syncVars>> /\ UNCHANGED extVars
    \/ \E s \in SockIds : OnOpen(s) /\ UNCHANGED <<gateVars, sortVars, syncVars>> /\ UNCHANGED extVars
    \/ \E s \in SockIds, f \in Frames : OnMessage(s, f) /\ UNCHANGED <<gateVars, sortVars, syncVars>> /\ UNCHANGED extVars
    \/ \E s \in SockIds : OnError(s) /\ UNCHANGED <<gateVars, sortVars, syncVars>> /\ UNCHANGED extVars
    \/ \E s \in SockIds : OnClose(s) /\ UNCHANGED <<gateVars, sortVars, syncVars>> /\ UNCHANGED extVars
    \/ \E t \in TimerIds : TimerFire(t) /\ UNCHANGED <<gateVars, sortVars, syncVars>> /\ UNCHANGED extVars
    \/ Tick /\ UNCHANGED <<gateVars, sortVars, syncVars>> /\ UNCHANGED extVars
    \/ EffectSeen /\ UNCHANGED <<gateVars, sortVars, syncVars>> /\ UNCHANGED extVars
SocketSpec == SocketInit /\ [][SocketNext]_vars

\* the attendee page's gating against the clock and the room record
GatingInit == SockIdle /\ GateInit /\ SortIdle /\ SyncIdle /\ ExtIdle
GatingNext ==
    \/ ClockAdvance /\ UNCHANGED <<sockVars, sortVars, syncVars>> /\ UNCHANGED extVars
    \/ RoomQueryDone /\ UNCHANGED <<sockVars, sortVars, syncVars>> /\ UNCHANGED extVars
    \/ RoomPageRender /\ UNCHANGED <<sockVars, sortVars, syncVars>> /\ UNCHANGED extVars
    \/ RegistryStart /\ UNCHANGED <<sockVars, sortVars, syncVars>> /\ UNCHANGED extVars
    \/ RegistryEnd /\ UNCHANGED <<sockVars, sortVars, syncVars>> /\ UNCHANGED extVars
    \/ \E m \in 1..2 : RegistryExtend(m) /\ UNCHANGED <<sockVars, sortVars, syncVars>> /\ UNCHANGED extVars
GateSpec == GatingInit /\ [][GatingNext]_vars

\* the three sort call sites, on every list the store can answer with
SortingInit == SockIdle /\ GateIdle /\ SortInit /\ SyncIdle /\ ExtIdle
SortingNext ==
    \/ \E q \in 1..MaxLen : SortVote(q) /\ UNCHANGED <<sockVars, gateVars, syncVars>> /\ UNCHANGED extVars
    \/ SortSubmit /\ UNCHANGED <<sockVars, gateVars, syncVars>> /\ UNCHANGED extVars
    \/ \E m \in AllModes : SortSetSortBy(m) /\ UNCHANGED <<sockVars, gateVars, syncVars>> /\ UNCHANGED extVars
    \/ \E tab \in {"unanswered", "answered"} : SetActiveTab(tab) /\ UNCHANGED <<sockVars, gateVars, syncVars>> /\ UNCHANGED extVars
SortSpec == SortingInit /\ [][SortingNext]_vars

\* the attendee page against the server: queries, push channel, changes by others
SyncStart == SockInit /\ SyncGateInit /\ SyncSortInit /\ SyncInit /\ ExtIdle
SyncNext ==
    \/ RoomArrives /\ UNCHANGED <<view, sortBy, activeTab, cache, dashQuestions, shown>> /\ UNCHANGED extVars
    \/ \E m \in AllModes : ListAnswered(m) /\ UNCHANGED <<sockVars, gateVars, sortVars>> /\ UNCHANGED extVars
    \/ \E m \in AllModes : ListArrives(m) /\ UNCHANGED <<sockVars, gateVars>> /\ UNCHANGED extVars
    \/ \E m \in AllModes : ListFails(m) /\ UNCHANGED <<sockVars, gateVars, sortVars>> /\ UNCHANGED extVars
    \/ OtherSubmit /\ UNCHANGED <<sockVars, gateVars, sortVars>> /\ UNCHANGED extVars
    \/ \E i \in 1..MaxLen : OtherVote(i) /\ UNCHANGED <<sockVars, gateVars, sortVars>> /\ UNCHANGED extVars
    \/ \E i \in 1..MaxLen : OrganizerAnswers(i) /\ UNCHANGED <<sockVars, gateVars, sortVars>> /\ UNCHANGED extVars
    \/ OrganizerControls /\ UNCHANGED <<sockVars, sortVars>> /\ UNCHANGED extVars
    \/ \E s \in SockIds : OnOpen(s) /\ UNCHANGED <<gateVars, sortVars, syncVars>> /\ UNCHANGED extVars
    \/ \E s \in SockIds : OnError(s) /\ UNCHANGED <<gateVars, sortVars, syncVars>> /\ UNCHANGED extVars
    \/ \E s \in SockIds : SocketCloses(s) /\ UNCHANGED <<gateVars, sortVars>> /\ UNCHANGED extVars
    \/ \E s \in SockIds : FrameArrives(s) /\ UNCHANGED <<gateVars, sortVars>> /\ UNCHANGED extVars
    \/ \E t \in TimerIds : TimerFire(t) /\ UNCHANGED <<gateVars, sortVars, syncVars>> /\ UNCHANGED extVars
    \/ Tick /\ UNCHANGED <<gateVars, sortVars, syncVars>> /\ UNCHANGED extVars
    \/ RealTimeEffect /\ UNCHANGED <<gateVars, sortVars>> /\ UNCHANGED extVars
SyncSpec == SyncStart /\ [][SyncNext]_vars

\* the attendee's own submits, votes, sort switches and reloads, with the push
\* channel staying up
MutNext ==
    \/ RoomArrives /\ UNCHANGED <<view, sortBy, activeTab, cache, dashQuestions, shown>> /\ UNCHANGED extVars
    \/ \E m \in AllModes : ListAnswered(m) /\ UNCHANGED <<sockVars, gateVars, sortVars>> /\ UNCHANGED extVars
    \/ \E m \in AllModes : ListArrives(m) /\ UNCHANGED <<sockVars, gateVars>> /\ UNCHANGED extVars
    \/ \E m \in AllModes : ListFails(m) /\ UNCHANGED <<sockVars, gateVars, sortVars>> /\ UNCHANGED extVars
    \/ \E m \in AllModes : SetSortBy(m) /\ UNCHANGED <<sockVars, gateVars>> /\ UNCHANGED extVars
    \/ PostMutate /\ UNCHANGED <<sockVars, gateVars>> /\ UNCHANGED extVars
    \/ StoreSubmit /\ UNCHANGED <<sockVars, gateVars, sortVars>> /\ UNCHANGED extVars
    \/ PostFails /\ UNCHANGED <<sockVars, gateVars, sortVars>> /\ UNCHANGED extVars
    \/ PostOnSuccess /\ UNCHANGED <<sockVars, gateVars>> /\ UNCHANGED extVars
    \/ PostOnError /\ UNCHANGED <<sockVars, gateVars>> /\ UNCHANGED extVars
    \/ \E q \in QuestionIds : VoteMutate(q) /\ UNCHANGED <<sockVars, gateVars>> /\ UNCHANGED extVars
    \/ StoreVote /\ UNCHANGED <<sockVars, gateVars, sortVars>> /\ UNCHANGED extVars
    \/ VoteFails /\ UNCHANGED <<sockVars, gateVars, sortVars>> /\ UNCHANGED extVars
    \/ VoteOnSuccess /\ UNCHANGED <<sockVars, gateVars>> /\ UNCHANGED extVars
    \/ VoteOnError /\ UNCHANGED <<sockVars, gateVars>> /\ UNCHANGED extVars
    \/ Reload /\ UNCHANGED extVars
MutSpec == SyncStart /\ [][MutNext]_vars

\* submits, votes and sort switches with the push channel open and every
\* list request answered
LiveNext ==
    \/ RoomArrives /\ UNCHANGED <<view, sortBy, activeTab, cache, dashQuestions, shown>> /\ UNCHANGED extVars
    \/ \E m \in AllModes : ListAnswered(m) /\ UNCHANGED <<sockVars, gateVars, sortVars>> /\ UNCHANGED extVars
    \/ \E m \in AllModes : ListArrives(m) /\ UNCHANGED <<sockVars, gateVars>> /\ UNCHANGED extVars
    \/ \E m \in AllModes : SetSortBy(m) /\ UNCHANGED <<sockVars, gateVars>> /\ UNCHANGED extVars
    \/ \E s \in SockIds : OnOpen(s) /\ UNCHANGED <<gateVars, sortVars, syncVars>> /\ UNCHANGED extVars
    \/ \E s \in SockIds : FrameArrives(s) /\ UNCHANGED <<gateVars, sortVars>> /\ UNCHANGED extVars
    \/ RealTimeEffect /\ UNCHANGED <<gateVars, sortVars>> /\ UNCHANGED extVars
    \/ PostMutate /\ UNCHANGED <<sockVars, gateVars>> /\ UNCHANGED extVars
    \/ StoreSubmit /\ UNCHANGED <<sockVars, gateVars, sortVars>> /\ UNCHANGED extVars
    \/ PostFails /\ UNCHANGED <<sockVars, gateVars, sortVars>> /\ UNCHANGED extVars
    \/ PostOnSuccess /\ UNCHANGED <<sockVars, gateVars>> /\ UNCHANGED extVars
    \/ PostOnError /\ UNCHANGED <<sockVars, gateVars>> /\ UNCHANGED extVars
    \/ \E q \in QuestionIds : VoteMutate(q) /\ UNCHANGED <<sockVars, gateVars>> /\ UNCHANGED extVars
    \/ StoreVote /\ UNCHANGED <<sockVars, gateVars, sortVars>> /\ UNCHANGED extVars
    \/ VoteFails /\ UNCHANGED <<sockVars, gateVars, sortVars>> /\ UNCHANGED extVars
    \/ VoteOnSuccess /\ UNCHANGED <<sockVars, gateVars>> /\ UNCHANGED extVars
    \/ VoteOnError /\ UNCHANGED <<sockVars, gateVars>> /\ UNCHANGED extVars
LiveSpec == SyncStart /\ [][LiveNext]_vars

\* submits and votes of useRoomLogic while the push channel drops and reconnects
DropStart == SyncStart /\ view = "useRoomLogic"
DropNext ==
    \/ RoomArrives /\ UNCHANGED <<view, sortBy, activeTab, cache, dashQuestions, shown>> /\ UNCHANGED extVars
    \/ \E m \in AllModes : ListAnswered(m) /\ UNCHANGED <<sockVars, gateVars, sortVars>> /\ UNCHANGED extVars
    \/ \E m \in AllModes : ListArrives(m) /\ UNCHANGED <<sockVars, gateVars>> /\ UNCHANGED extVars
    \/ \E s \in SockIds : OnOpen(s) /\ UNCHANGED <<gateVars, sortVars, syncVars>> /\ UNCHANGED extVars
    \/ \E s \in SockIds : SocketCloses(s) /\ UNCHANGED <<gateVars, sortVars>> /\ UNCHANGED extVars
    \/ \E t \in TimerIds : TimerFire(t) /\ UNCHANGED <<gateVars, sortVars, syncVars>> /\ UNCHANGED extVars
    \/ Tick /\ UNCHANGED <<gateVars, sortVars, syncVars>> /\ UNCHANGED extVars
    \/ PostMutate /\ UNCHANGED <<sockVars, gateVars>> /\ UNCHANGED extVars
    \/ StoreSubmit /\ UNCHANGED <<sockVars, gateVars, sortVars>> /\ UNCHANGED extVars
    \/ PostFails /\ UNCHANGED <<sockVars, gateVars, sortVars>> /\ UNCHANGED extVars
    \/ PostOnSuccess /\ UNCHANGED <<sockVars, gateVars>> /\ UNCHANGED extVars
    \/ PostOnError /\ UNCHANGED <<sockVars, gateVars>> /\ UNCHANGED extVars
    \/ \E q \in QuestionIds : VoteMutate(q) /\ UNCHANGED <<sockVars, gateVars>> /\ UNCHANGED extVars
    \/ StoreVote /\ UNCHANGED <<sockVars, gateVars, sortVars>> /\ UNCHANGED extVars
    \/ VoteFails /\ UNCHANGED <<sockVars, gateVars, sortVars>> /\ UNCHANGED extVars
    \/ VoteOnSuccess /\ UNCHANGED <<sockVars, gateVars>> /\ UNCHANGED extVars
    \/ VoteOnError /\ UNCHANGED <<sockVars, gateVars>> /\ UNCHANGED extVars
DropSpec == DropStart /\ [][DropNext]_vars

\* the organizer's dashboard against the server
DashStart == SockIdle /\ SyncGateInit /\ SortIdle /\ SyncIdle /\ DashInit /\ TwinIdle /\ PageIdle /\ MoreIdle /\ LastIdle
DashNext ==
    \/ DashAnswered /\ UNCHANGED <<sockVars, gateVars, sortVars, syncVars, twinVars, pageVars>> /\ UNCHANGED moreVars /\ UNCHANGED lastVars
    \/ DashArrives /\ UNCHANGED <<sockVars, gateVars, sortVars, syncVars, twinVars, pageVars>> /\ UNCHANGED moreVars /\ UNCHANGED lastVars
    \/ DashEffect /\ UNCHANGED <<sockVars, gateVars, sortVars, syncVars, twinVars, pageVars>> /\ UNCHANGED moreVars /\ UNCHANGED lastVars
    \/ \E q \in 1..MaxLen : OtherReply(q, OtherText) /\ UNCHANGED <<sockVars, gateVars, sortVars, syncVars, twinVars, pageVars>> /\ UNCHANGED moreVars /\ UNCHANGED lastVars
    \/ \E q \in 1..MaxLen : ReplyMutate(q, OwnText) /\ UNCHANGED <<sockVars, gateVars, sortVars, syncVars, twinVars, pageVars>> /\ UNCHANGED moreVars /\ UNCHANGED lastVars
    \/ StoreReply /\ UNCHANGED <<sockVars, gateVars, sortVars, syncVars, twinVars, pageVars>> /\ UNCHANGED moreVars /\ UNCHANGED lastVars
    \/ ReplyFails /\ UNCHANGED <<sockVars, gateVars, sortVars, syncVars, twinVars, pageVars>> /\ UNCHANGED moreVars /\ UNCHANGED lastVars
    \/ ReplyOnSuccess /\ UNCHANGED <<sockVars, gateVars, sortVars, syncVars, twinVars, pageVars>> /\ UNCHANGED moreVars /\ UNCHANGED lastVars
    \/ ReplyOnError /\ UNCHANGED <<sockVars, gateVars, sortVars, syncVars, twinVars, pageVars>> /\ UNCHANGED moreVars /\ UNCHANGED lastVars
    \/ \E q \in 1..MaxLen : MarkMutate(q) /\ UNCHANGED <<sockVars, gateVars, sortVars, syncVars, twinVars, pageVars>> /\ UNCHANGED moreVars /\ UNCHANGED lastVars
    \/ StoreMark /\ UNCHANGED <<sockVars, gateVars, sortVars, syncVars, twinVars, pageVars>> /\ UNCHANGED moreVars /\ UNCHANGED lastVars
    \/ MarkFails /\ UNCHANGED <<sockVars, gateVars, sortVars, syncVars, twinVars, pageVars>> /\ UNCHANGED moreVars /\ UNCHANGED lastVars
    \/ MarkOnSuccess /\ UNCHANGED <<sockVars, gateVars, sortVars, syncVars, twinVars, pageVars>> /\ UNCHANGED moreVars /\ UNCHANGED lastVars
    \/ MarkOnError /\ UNCHANGED <<sockVars, gateVars, sortVars, syncVars, twinVars, pageVars>> /\ UNCHANGED moreVars /\ UNCHANGED lastVars
    \/ \E a \in Actions : ControlMutate(a) /\ UNCHANGED <<sockVars, gateVars, sortVars, syncVars, twinVars, pageVars>> /\ UNCHANGED moreVars /\ UNCHANGED lastVars
    \/ StoreControl /\ UNCHANGED <<sockVars, sortVars, syncVars, twinVars, pageVars>> /\ UNCHANGED moreVars /\ UNCHANGED lastVars
    \/ ControlFails /\ UNCHANGED <<sockVars, gateVars, sortVars, syncVars, twinVars, pageVars>> /\ UNCHANGED moreVars /\ UNCHANGED lastVars
    \/ ControlOnSuccess /\ UNCHANGED <<sockVars, gateVars, sortVars, syncVars, twinVars, pageVars>> /\ UNCHANGED moreVars /\ UNCHANGED lastVars
    \/ ControlOnError /\ UNCHANGED <<sockVars, gateVars, sortVars, syncVars, twinVars, pageVars>> /\ UNCHANGED moreVars /\ UNCHANGED lastVars
DashSpec == DashStart /\ [][DashNext]_vars

\* two clients that differ in nothing but the payloads of the frames they get
TwinStart == SockIdle /\ GateIdle /\ TwinSortInit /\ SyncIdle /\ DashIdle /\ TwinInit /\ PageIdle /\ MoreIdle /\ LastIdle
TwinNext ==
    \/ \E f \in Frames, d1 \in Payloads, d2 \in Payloads : TwinMessage(f, d1, d2) /\ UNCHANGED <<sockVars, gateVars, sortVars, syncVars, dashVars, pageVars>> /\ UNCHANGED moreVars /\ UNCHANGED lastVars
    \/ TwinEffect /\ UNCHANGED <<sockVars, gateVars, sortVars, syncVars, dashVars, pageVars>> /\ UNCHANGED moreVars /\ UNCHANGED lastVars
    \/ \E l \in Snapshots : TwinSnapshot(l) /\ UNCHANGED <<sockVars, gateVars, sortVars, syncVars, dashVars, pageVars>> /\ UNCHANGED moreVars /\ UNCHANGED lastVars
    \/ TwinRoomArrives /\ UNCHANGED <<sockVars, gateVars, sortVars, syncVars, dashVars, pageVars>> /\ UNCHANGED moreVars /\ UNCHANGED lastVars
    \/ \E q \in 1..MaxLen : TwinVote(q) /\ UNCHANGED <<sockVars, gateVars, sortVars, syncVars, dashVars, pageVars>> /\ UNCHANGED moreVars /\ UNCHANGED lastVars
TwinSpec == TwinStart /\ [][TwinNext]_vars

\* the attendee page left and entered again while lists are being fetched
PageNext ==
    \/ RoomArrives /\ UNCHANGED <<view, sortBy, activeTab, cache, dashQuestions, shown>> /\ UNCHANGED <<dashVars, twinVars, pageVars>> /\ UNCHANGED moreVars /\ UNCHANGED lastVars
    \/ \E m \in AllModes : ListAnswered(m) /\ UNCHANGED <<sockVars, gateVars, sortVars>> /\ UNCHANGED <<dashVars, twinVars, pageVars>> /\ UNCHANGED moreVars /\ UNCHANGED lastVars
    \/ \E m \in AllModes : ListArrives(m) /\ ArrivalNoted(m) /\ UNCHANGED <<sockVars, gateVars>> /\ UNCHANGED <<dashVars, twinVars>> /\ UNCHANGED moreVars /\ UNCHANGED lastVars
    \/ OtherSubmit /\ UNCHANGED <<sockVars, gateVars, sortVars>> /\ UNCHANGED <<dashVars, twinVars, pageVars>> /\ UNCHANGED moreVars /\ UNCHANGED lastVars
    \/ \E s \in SockIds : OnOpen(s) /\ UNCHANGED <<gateVars, sortVars, syncVars>> /\ UNCHANGED <<dashVars, twinVars, pageVars>> /\ UNCHANGED moreVars /\ UNCHANGED lastVars
    \/ \E s \in SockIds : FrameArrives(s) /\ UNCHANGED <<gateVars, sortVars>> /\ UNCHANGED <<dashVars, twinVars, pageVars>> /\ UNCHANGED moreVars /\ UNCHANGED lastVars
    \/ RealTimeEffect /\ EffectNoted /\ UNCHANGED <<gateVars, sortVars>> /\ UNCHANGED <<dashVars, twinVars>> /\ UNCHANGED moreVars /\ UNCHANGED lastVars
    \/ LeavePage /\ UNCHANGED <<dashVars, twinVars>> /\ UNCHANGED moreVars /\ UNCHANGED lastVars
    \/ ReturnPage /\ UNCHANGED <<dashVars, twinVars>> /\ UNCHANGED moreVars /\ UNCHANGED lastVars
PageSpec == SyncStart /\ [][PageNext]_vars

\* the Question Store under concurrent vote calls, submits and the clock
StoreStart ==
    /\ SockIdle /\ SortIdle /\ SyncIdle /\ DashIdle /\ TwinIdle /\ PageIdle /\ LastIdle
    /\ now = 0
    /\ srvRoom \in [status : Statuses, starts_at : {0}, expires_at : 1..2]
    /\ room = NoRecord
    /\ rendered = [page |-> "loading", isExpired |-> FALSE]
    /\ StoreInit
    /\ bcast = <<>> /\ form = <<>> /\ landing = <<>> /\ device = <<>>
StoreNext ==
    \/ \E c \in CallIds, k \in VoteKeys : VoteRequest(c, k) /\ UNCHANGED <<sockVars, gateVars, sortVars, syncVars, dashVars, twinVars, pageVars, bcast, form, landing, device>> /\ UNCHANGED lastVars
    \/ \E c \in CallIds : VoteCall(c) /\ UNCHANGED <<sockVars, gateVars, sortVars, syncVars, dashVars, twinVars, pageVars, bcast, form, landing, device>> /\ UNCHANGED lastVars
    \/ \E t \in Contents : SubmitCall(t) /\ UNCHANGED <<sockVars, gateVars, sortVars, syncVars, dashVars, twinVars, pageVars, bcast, form, landing, device>> /\ UNCHANGED lastVars
    \/ ClockAdvance /\ UNCHANGED <<sockVars, sortVars, syncVars, dashVars, twinVars, pageVars, moreVars>> /\ UNCHANGED lastVars
StoreSpec == StoreStart /\ [][StoreNext]_vars

\* the Room Registry under every sequence of start, end and extend calls
RegistryBegin ==
    /\ SockIdle /\ SortIdle /\ SyncIdle /\ DashIdle /\ TwinIdle /\ PageIdle /\ LastIdle
    /\ RegistryInit
    /\ calls = <<>> /\ bcast = <<>> /\ form = <<>> /\ landing = <<>> /\ device = <<>>
RegistryNext ==
    \/ \E t \in Tokens : CallStart(t) /\ UNCHANGED <<sockVars, sortVars, syncVars, dashVars, twinVars, pageVars, calls, bcast, form, landing, device>> /\ UNCHANGED lastVars
    \/ \E t \in Tokens : CallEnd(t) /\ UNCHANGED <<sockVars, sortVars, syncVars, dashVars, twinVars, pageVars, calls, bcast, form, landing, device>> /\ UNCHANGED lastVars
    \/ \E t \in Tokens, m \in -1..2 : CallExtend(t, m) /\ UNCHANGED <<sockVars, sortVars, syncVars, dashVars, twinVars, pageVars, calls, bcast, form, landing, device>> /\ UNCHANGED lastVars
    \/ \E h \in HourInputs, m \in MinuteInputs : handleExtend(h, m) /\ UNCHANGED <<sockVars, sortVars, syncVars, dashVars, twinVars, pageVars, calls, bcast, form, landing, device>> /\ UNCHANGED lastVars
    \/ ClockAdvance /\ last' = last /\ UNCHANGED <<sockVars, sortVars, syncVars, dashVars, twinVars, pageVars, calls, bcast, form, landing, device>> /\ UNCHANGED lastVars
RegistrySpec == RegistryBegin /\ [][RegistryNext]_vars

\* the Broadcaster under every sequence of subscribe, unsubscribe and publish
BcastStart ==
    /\ SockIdle /\ GateIdle /\ SortIdle /\ SyncIdle /\ DashIdle /\ TwinIdle /\ PageIdle /\ LastIdle
    /\ BcastInit
    /\ calls = <<>> /\ last = <<>> /\ form = <<>> /\ landing = <<>> /\ device = <<>>
BcastNext ==
    \/ \E r \in Rooms, c \in Conns : BcastSubscribe(r, c) /\ UNCHANGED <<sockVars, gateVars, sortVars, syncVars, dashVars, twinVars, pageVars, calls, last, form, landing, device>> /\ UNCHANGED lastVars
    \/ \E r \in Rooms, c \in Conns : BcastUnsubscribe(r, c) /\ UNCHANGED <<sockVars, gateVars, sortVars, syncVars, dashVars, twinVars, pageVars, calls, last, form, landing, device>> /\ UNCHANGED lastVars
    \/ \E r \in Rooms, f \in {{}} \cup {{c} : c \in Conns} : BcastPublish(r, f) /\ UNCHANGED <<sockVars, gateVars, sortVars, syncVars, dashVars, twinVars, pageVars, calls, last, form, landing, device>> /\ UNCHANGED lastVars
BcastSpec == BcastStart /\ [][BcastNext]_vars

\* the question form under every sequence of key strokes and submits
FormStart ==
    /\ SockIdle /\ GateIdle /\ SortIdle /\ SyncIdle /\ DashIdle /\ TwinIdle /\ PageIdle /\ LastIdle
    /\ FormInit
    /\ calls = <<>> /\ last = <<>> /\ bcast = <<>> /\ landing = <<>> /\ device = <<>>
FormNext ==
    \/ \E ch \in Chars : FormType(ch) /\ UNCHANGED <<sockVars, gateVars, sortVars, syncVars, dashVars, twinVars, pageVars, calls, last, bcast, landing, device>> /\ UNCHANGED lastVars
    \/ FormErase /\ UNCHANGED <<sockVars, gateVars, sortVars, syncVars, dashVars, twinVars, pageVars, calls, last, bcast, landing, device>> /\ UNCHANGED lastVars
    \/ FormSubmit /\ UNCHANGED <<sockVars, gateVars, sortVars, syncVars, dashVars, twinVars, pageVars, calls, last, bcast, landing, device>> /\ UNCHANGED lastVars
    \/ FormSettled /\ UNCHANGED <<sockVars, gateVars, sortVars, syncVars, dashVars, twinVars, pageVars, calls, last, bcast, landing, device>> /\ UNCHANGED lastVars
FormSpec == FormStart /\ [][FormNext]_vars

\* the join form under every sequence of key strokes and submits
LandingStart ==
    /\ SockIdle /\ GateIdle /\ SortIdle /\ SyncIdle /\ DashIdle /\ TwinIdle /\ PageIdle /\ LastIdle
    /\ LandingInit
    /\ calls = <<>> /\ last = <<>> /\ bcast = <<>> /\ form = <<>> /\ device = <<>>
LandingNext ==
    \/ \E ch \in CodeChars : JoinType(ch) /\ UNCHANGED <<sockVars, gateVars, sortVars, syncVars, dashVars, twinVars, pageVars, calls, last, bcast, form, device>> /\ UNCHANGED lastVars
    \/ JoinErase /\ UNCHANGED <<sockVars, gateVars, sortVars, syncVars, dashVars, twinVars, pageVars, calls, last, bcast, form, device>> /\ UNCHANGED lastVars
    \/ handleJoin /\ UNCHANGED <<sockVars, gateVars, sortVars, syncVars, dashVars, twinVars, pageVars, calls, last, bcast, form, device>> /\ UNCHANGED lastVars
LandingSpec == LandingStart /\ [][LandingNext]_vars

\* the pages of one device, mounting, sending and closing in any order
DeviceStart ==
    /\ SockIdle /\ GateIdle /\ SortIdle /\ SyncIdle /\ DashIdle /\ TwinIdle /\ PageIdle /\ LastIdle
    /\ DeviceInit
    /\ calls = <<>> /\ last = <<>> /\ bcast = <<>> /\ form = <<>> /\ landing = <<>>
DeviceNext ==
    \/ \E t \in Tabs, u \in Uuids : PageMount(t, u) /\ UNCHANGED <<sockVars, gateVars, sortVars, syncVars, dashVars, twinVars, pageVars, calls, last, bcast, form, landing>> /\ UNCHANGED lastVars
    \/ \E t \in Tabs : PageUnmount(t) /\ UNCHANGED <<sockVars, gateVars, sortVars, syncVars, dashVars, twinVars, pageVars, calls, last, bcast, form, landing>> /\ UNCHANGED lastVars
    \/ \E t \in Tabs, k \in {"submit", "vote"} : SendRequest(t, k) /\ UNCHANGED <<sockVars, gateVars, sortVars, syncVars, dashVars, twinVars, pageVars, calls, last, bcast, form, landing>> /\ UNCHANGED lastVars
DeviceSpec == DeviceStart /\ [][DeviceNext]_vars

\* the dashboard's lock against the clock: the room is fetched, started,
\* extended and ended while the seconds pass
LockStart ==
    /\ SockIdle /\ SortIdle /\ SyncIdle /\ DashInit /\ TwinIdle /\ PageIdle /\ MoreIdle /\ LastIdle
    /\ now = 0
    /\ srvRoom \in [status : {"WAITING", "LIVE"}, starts_at : {0}, expires_at : 1..2]
    /\ room = NoRecord
    /\ rendered = [page |-> "loading", isExpired |-> FALSE]
LockNext ==
    \/ ClockAdvance /\ UNCHANGED <<sockVars, sortVars, syncVars, dashVars, twinVars, pageVars>> /\ UNCHANGED moreVars /\ UNCHANGED lastVars
    \/ DashAnswered /\ UNCHANGED <<sockVars, gateVars, sortVars, syncVars, twinVars, pageVars>> /\ UNCHANGED moreVars /\ UNCHANGED lastVars
    \/ DashArrives /\ UNCHANGED <<sockVars, gateVars, sortVars, syncVars, twinVars, pageVars>> /\ UNCHANGED moreVars /\ UNCHANGED lastVars
    \/ \E a \in Actions : ControlMutate(a) /\ UNCHANGED <<sockVars, gateVars, sortVars, syncVars, twinVars, pageVars>> /\ UNCHANGED moreVars /\ UNCHANGED lastVars
    \/ StoreControl /\ UNCHANGED <<sockVars, sortVars, syncVars, twinVars, pageVars>> /\ UNCHANGED moreVars /\ UNCHANGED lastVars
    \/ ControlFails /\ UNCHANGED <<sockVars, gateVars, sortVars, syncVars, twinVars, pageVars>> /\ UNCHANGED moreVars /\ UNCHANGED lastVars
    \/ ControlOnSuccess /\ UNCHANGED <<sockVars, gateVars, sortVars, syncVars, twinVars, pageVars>> /\ UNCHANGED moreVars /\ UNCHANGED lastVars
    \/ ControlOnError /\ UNCHANGED <<sockVars, gateVars, sortVars, syncVars, twinVars, pageVars>> /\ UNCHANGED moreVars /\ UNCHANGED lastVars
LockSpec == LockStart /\ [][LockNext]_vars

\* the voted set under votes, renders and answers in any order
VotedStart ==
    /\ SockIdle /\ GateIdle /\ SortIdle /\ SyncIdle /\ DashIdle /\ TwinIdle /\ PageIdle /\ MoreIdle
    /\ VotedInit
    /\ mine = <<>> /\ modal = <<>> /\ heard = <<>>
VotedNext ==
    \/ VotedRender /\ UNCHANGED <<sockVars, gateVars, sortVars, syncVars, dashVars, twinVars, pageVars, moreVars, mine, modal, heard>>
    \/ \E q \in 1..MaxLen : VotedIssue(q) /\ UNCHANGED <<sockVars, gateVars, sortVars, syncVars, dashVars, twinVars, pageVars, moreVars, mine, modal, heard>>
    \/ VotedSettles /\ UNCHANGED <<sockVars, gateVars, sortVars, syncVars, dashVars, twinVars, pageVars, moreVars, mine, modal, heard>>
VotedSpec == VotedStart /\ [][VotedNext]_vars

\* "my questions" under submits that succeed or fail in any order
MineStart ==
    /\ SockIdle /\ GateIdle /\ SortIdle /\ SyncIdle /\ DashIdle /\ TwinIdle /\ PageIdle /\ MoreIdle
    /\ MineInit
    /\ voted = <<>> /\ modal = <<>> /\ heard = <<>>
MineNext ==
    \/ MineMutate /\ UNCHANGED <<sockVars, gateVars, sortVars, syncVars, dashVars, twinVars, pageVars, moreVars, voted, modal, heard>>
    \/ \E t \in (-MaxActs)..(-1) : MineOnSuccess(t) /\ UNCHANGED <<sockVars, gateVars, sortVars, syncVars, dashVars, twinVars, pageVars, moreVars, voted, modal, heard>>
    \/ \E t \in (-MaxActs)..(-1) : MineOnError(t) /\ UNCHANGED <<sockVars, gateVars, sortVars, syncVars, dashVars, twinVars, pageVars, moreVars, voted, modal, heard>>
    \/ MineReload /\ UNCHANGED <<sockVars, gateVars, sortVars, syncVars, dashVars, twinVars, pageVars, moreVars, voted, modal, heard>>
MineSpec == MineStart /\ [][MineNext]_vars

\* the dashboard's session controls, the registry and another organizer session
ControlStart ==
    /\ SockIdle /\ SortIdle /\ SyncIdle /\ DashInit /\ TwinIdle /\ PageIdle /\ MoreIdle
    /\ now = 0
    /\ srvRoom \in [status : {"WAITING", "LIVE"}, starts_at : {0}, expires_at : 1..2]
    /\ room = NoRecord
    /\ rendered = [page |-> "loading", isExpired |-> FALSE]
    /\ modal = FALSE
    /\ voted = <<>> /\ mine = <<>> /\ heard = <<>>
ControlNext ==
    \/ DashAnswered /\ modal' = modal /\ UNCHANGED <<sockVars, gateVars, sortVars, syncVars, twinVars, pageVars, moreVars, voted, mine, heard>>
    \/ DashArrives /\ modal' = modal /\ UNCHANGED <<sockVars, gateVars, sortVars, syncVars, twinVars, pageVars, moreVars, voted, mine, heard>>
    \/ DashEffect /\ modal' = modal /\ UNCHANGED <<sockVars, gateVars, sortVars, syncVars, twinVars, pageVars, moreVars, voted, mine, heard>>
    \/ ClickStart /\ UNCHANGED <<sockVars, gateVars, sortVars, syncVars, twinVars, pageVars, moreVars, voted, mine, heard>>
    \/ ClickEnd /\ UNCHANGED <<sockVars, gateVars, sortVars, syncVars, twinVars, pageVars, moreVars, voted, mine, heard>>
    \/ OpenExtendModal /\ UNCHANGED <<sockVars, gateVars, sortVars, syncVars, twinVars, pageVars, moreVars, voted, mine, heard>>
    \/ CloseExtendModal /\ UNCHANGED <<sockVars, gateVars, sortVars, syncVars, twinVars, pageVars, moreVars, voted, mine, heard>>
    \/ ConfirmExtend /\ UNCHANGED <<sockVars, gateVars, sortVars, syncVars, twinVars, pageVars, moreVars, voted, mine, heard>>
    \/ OtherEnd /\ modal' = modal /\ UNCHANGED <<sockVars, sortVars, syncVars, twinVars, pageVars, moreVars, voted, mine, heard>>
    \/ StoreControl /\ modal' = modal /\ UNCHANGED <<sockVars, sortVars, syncVars, twinVars, pageVars, moreVars, voted, mine, heard>>
    \/ ControlFails /\ modal' = modal /\ UNCHANGED <<sockVars, gateVars, sortVars, syncVars, twinVars, pageVars, moreVars, voted, mine, heard>>
    \/ ControlOnSuccess /\ modal' = modal /\ UNCHANGED <<sockVars, gateVars, sortVars, syncVars, twinVars, pageVars, moreVars, voted, mine, heard>>
    \/ ControlOnError /\ modal' = modal /\ UNCHANGED <<sockVars, gateVars, sortVars, syncVars, twinVars, pageVars, moreVars, voted, mine, heard>>
ControlSpec == ControlStart /\ [][ControlNext]_vars

\* the push channel with a note of the frame that arrived last
HearStart ==
    /\ SockInit /\ GateIdle /\ SortIdle /\ SyncIdle
    /\ DashIdle /\ TwinIdle /\ PageIdle /\ MoreIdle
    /\ voted = <<>> /\ mine = <<>> /\ modal = <<>>
    /\ heard = [n |-> 0, frame |-> NoMsg]
\* one frame that parses and one that does not
HearFrames == {"QUESTION_CREATED", "garbage"}
HearRest == UNCHANGED <<gateVars, sortVars, syncVars>> /\ UNCHANGED extVars
HearNext ==
    \/ \E r \in Rooms \cup {NoRoom} : SetRoomId(r) /\ HearRest
    \/ Unmount /\ HearRest
    \/ \E s \in SockIds : OnOpen(s) /\ HearRest
    \/ \E s \in SockIds, f \in HearFrames :
          /\ OnMessage(s, f)
          /\ heard' = [n |-> 1 - heard.n, frame |-> f]
          /\ UNCHANGED <<gateVars, sortVars, syncVars, dashVars, twinVars, pageVars, moreVars>>
          /\ UNCHANGED <<voted, mine, modal>>
    \/ \E s \in SockIds : OnError(s) /\ HearRest
    \/ \E s \in SockIds : OnClose(s) /\ HearRest
    \/ \E t \in TimerIds : TimerFire(t) /\ HearRest
    \/ Tick /\ HearRest
    \/ EffectSeen /\ HearRest
HearSpec == HearStart /\ [][HearNext]_vars

(***************************************************************************)
(* Claims.                                                                 *)
(***************************************************************************)

\* C2: after useRoomSocket unmounts or its room id changes, no reconnect
\* timer for the old room is pending and no connection to the old room is
\* being opened: every pending timer and every connecting socket belongs to
\* the room id of a mounted hook.
C2_CleanupStopsReconnect ==
    /\ \A t \in TimerIds :
          timers[t].left >= 0 => mounted /\ timers[t].room = roomId
    /\ \A s \in SockIds :
          sockets[s].state = "CONNECTING" => mounted /\ sockets[s].room = roomId

\* C3: while the hook stays mounted with its room id, every closure of a
\* connection to that room starts the 3 s backoff timer for the room, and a
\* pending timer for the room is only ever given up by firing into a new
\* connection attempt to the room.
C3_ReconnectsForever ==
    [][ (mounted' /\ roomId # NoRoom /\ roomId' = roomId) =>
          /\ \A s \in SockIds :
                (sockets[s].room = roomId /\ sockets'[s].state = "FREE") =>
                   \E t \in TimerIds :
                      timers'[t] = [room |-> roomId, left |-> ReconnectDelay]
          /\ \A t \in TimerIds :
                (timers[t].room = roomId /\ timers[t].left >= 0) =>
                   \/ /\ timers'[t].room = roomId
                      /\ timers'[t].left \in {timers[t].left, timers[t].left - 1}
                   \/ /\ timers[t].left = 0
                      /\ \E s \in SockIds :
                            /\ sockets[s].state = "FREE"
                            /\ sockets'[s] = [room |-> roomId, state |-> "CONNECTING"]
      ]_vars

\* the push channel is up and nothing is under way
SocketUp == status = "connected" /\ \E s \in SockIds : IsSubscribed(s)
Quiet ==
    /\ roomFetch = "idle"
    /\ \A m \in AllModes : qFetch[m].st = "idle"
    /\ \A s \in SockIds : inbox[s] = <<>> /\ sockets[s].state \in {"FREE", "OPEN"}
    /\ \A t \in TimerIds : TimerIsFree(timers[t])
    /\ ~effectPending

\* C1: when the push channel dropped and the latest question change was
\* published while it was down (or was lost with it), then once the channel
\* is up again and every fetch and event has been dealt with, the displayed
\* list is the server's list: the reconnect has re-fetched the state.
C1_ReconnectRefetches ==
    (gap = "missed" /\ SocketUp /\ Quiet /\ cache[sortBy].ok) =>
        shown = sortedQuestions(view, sortBy, activeTab, ServerList(sortBy, srvQuestions))

ChangeEvents ==
    {"QUESTION_CREATED", "QUESTION_UPDATED", "ROOM_STATUS_CHANGED", "ROOM_EXTENDED"}

\* C4: the effect that handles a change event starts a re-fetch of the
\* displayed question list, and for a status or extension event a re-fetch of
\* the room record as well.
C4_EventsRefetch ==
    [][ (effectPending /\ ~effectPending' /\ room.ok /\ lastMessage \in ChangeEvents) =>
          /\ qFetch'[sortBy].st = "sent"
          /\ lastMessage \in {"ROOM_STATUS_CHANGED", "ROOM_EXTENDED"} => roomFetch' = "sent"
      ]_vars

C6_ConcurrentRollback ==
    (grp.overlap /\ grp.clean /\ post.st = "error" /\ vote.st = "error") =>
        cache[sortBy] = grp.base

\* C7: the onError step of a failed vote takes the question out of the voted
\* set, in memory and in localStorage, and shows the snapshot's vote counts.
C7_FailedVoteRollsBack ==
    [][ (vote.st = "fail" /\ vote'.st = "error") =>
          /\ vote.q \notin votedQuestions'
          /\ vote.q \notin storedVoted'
          /\ vote.prev.ok => shown' = sortedQuestions(view, sortBy', activeTab, vote.prev.list)
      ]_vars

C9_GatedByStatusAndClock ==
    (room.ok /\ (room.status = "ENDED" \/ now >= room.expires_at)) =>
        (~SubmitOffered /\ ~VoteOffered)

\* C10: in sort mode top the displayed list has every unanswered question
\* before every answered one, within each group higher vote counts first,
\* and among equal vote counts the newer created_at first.
C10_TopOrder ==
    sortBy = "top" =>
        \A i \in 1..Len(shown), j \in 1..Len(shown) :
            i < j =>
                /\ (shown[i].is_answered => shown[j].is_answered)
                /\ (shown[i].is_answered = shown[j].is_answered =>
                        shown[i].votes >= shown[j].votes)
                /\ (shown[i].is_answered = shown[j].is_answered
                      /\ shown[i].votes = shown[j].votes =>
                        shown[i].created_at >= shown[j].created_at)

\* the list a view sorts: the dashboard's questions or the displayed query's data
InputList ==
    IF view = "useDashboardLogic" THEN dashQuestions
    ELSE IF cache[sortBy].ok THEN cache[sortBy].list ELSE <<>>
PosOf(list, qid) == CHOOSE i \in 1..Len(list) : list[i].id = qid

\* C11: in sort mode latest the displayed list of every view, attendee or
\* dashboard, is in created_at ascending order, and questions with equal
\* created_at are in the order of the list that was sorted.
C11_LatestOrder ==
    sortBy = "latest" =>
        \A i \in 1..Len(shown), j \in 1..Len(shown) :
            i < j =>
                /\ shown[i].created_at <= shown[j].created_at
                /\ shown[i].created_at = shown[j].created_at =>
                      PosOf(InputList, shown[i].id) < PosOf(InputList, shown[j].id)

\* C12: in sort mode answered the displayed list holds exactly the answered
\* questions of the query data, each once, in vote count descending order.
C12_AnsweredView ==
    sortBy = "answered" =>
        /\ \A i \in 1..Len(shown) : shown[i].is_answered
        /\ \A k \in 1..Len(InputList) :
              InputList[k].is_answered =>
                  \E i \in 1..Len(shown) :
                      /\ shown[i] = InputList[k]
                      /\ \A j \in 1..Len(shown) : shown[j].id = shown[i].id => j = i
        /\ \A i \in 1..Len(shown) : \E k \in 1..Len(InputList) : InputList[k] = shown[i]
        /\ \A i \in 1..Len(shown), j \in 1..Len(shown) :
              i < j => shown[i].votes >= shown[j].votes

\* the answered view shows two answered questions with different vote counts
\* while the query data holds an unanswered one as well
C12_Witness ==
    /\ sortBy = "answered"
    /\ Len(shown) >= 2 /\ shown[1].votes > shown[2].votes
    /\ \E k \in 1..Len(InputList) : ~InputList[k].is_answered

\* C13: the step in which a submit splices its placeholder into a loaded list
\* leaves the placeholder last in the displayed list in mode latest and first
\* in mode top.
C13_PlaceholderPosition ==
    [][ (post.st # "sent" /\ post'.st = "sent" /\ post'.prev.ok) =>
          /\ HasId(shown', post'.tempId)
          /\ sortBy' = "latest" => shown'[Len(shown')].id = post'.tempId
          /\ sortBy' = "top" => shown'[1].id = post'.tempId
      ]_vars

CountId(list, qid) == Cardinality({i \in 1..Len(list) : list[i].id = qid})

\* C14: once a submit has succeeded, its callbacks have run, the push channel
\* is open and was never down, and every event, fetch and vote has been dealt
\* with, a view in mode top or latest shows the confirmed question exactly
\* once and no question with the temporary id.
C14_SubmitReconciled ==
    (post.st = "success" /\ post.prev.ok /\ sortBy # "answered" /\ SocketUp /\ Quiet
        /\ gap = "none" /\ ~InFlight(vote)) =>
        /\ CountId(shown, post.newQ.id) = 1
        /\ ~HasId(shown, post.tempId)

\* C15: every submit and every vote of the attendee whose failure has been
\* handled has shown exactly one failure notification.
C15_FailureNotifiedOnce ==
    /\ post.st = "error" => post.toasts = 1
    /\ vote.st = "error" => vote.toasts = 1

DashLists ==
    {dData.questions, dSrvQuestions, dFetch.data.questions,
     reply.prev.questions, mark.prev.questions, control.prev.questions}

\* C18: in the dashboard's query data (optimistic states and rollbacks
\* included), in the store, in every response on its way and in every
\* snapshot kept for a rollback, a question with an organizer reply is answered.
C18_ReplyImpliesAnswered ==
    \A qs \in DashLists : \A i \in 1..Len(qs) :
        qs[i].organizer_reply # NoReply => qs[i].is_answered

\* a failed mark was rolled back while the optimistic reply of a pending
\* reply stays in the query data
C18_Witness ==
    /\ mark.st = "error" /\ reply.st = "sent"
    /\ \E i \in 1..Len(dData.questions) : dData.questions[i].organizer_reply # NoReply

\* C19: on every question list the dashboard holds and for every question id,
\* markAnswered's edit applied twice gives what it gives applied once; once
\* applied, the question is answered, its reply and id are as before, and
\* every other question is as before.
C19_MarkIdempotent ==
    \A q \in 1..MaxLen :
        LET qs == dData.questions
            once == MarkAnswered(qs, q)
            twice == MarkAnswered(once, q)
        IN /\ twice = once
           /\ Len(once) = Len(qs)
           /\ \A i \in 1..Len(qs) :
                IF qs[i].id = q
                THEN /\ once[i].is_answered
                     /\ once[i].organizer_reply = qs[i].organizer_reply
                     /\ once[i].id = qs[i].id
                ELSE once[i] = qs[i]

\* a mark is under way on a list that holds a replied question and a question
\* answered without a reply
C19_Witness ==
    /\ mark.st = "sent"
    /\ \E i \in 1..Len(dData.questions) : dData.questions[i].organizer_reply # NoReply
    /\ \E i \in 1..Len(dData.questions) :
          /\ dData.questions[i].id = mark.q
          /\ dData.questions[i].is_answered
          /\ dData.questions[i].organizer_reply = NoReply

\* C17: two clients that received frames of the same types with payloads of
\* their own, the same answers from the store and the same local edits hold
\* the same question list and have the same requests under way.
C17_PayloadBlind ==
    /\ twin[1].list = twin[2].list
    /\ twin[1].listSent = twin[2].listSent
    /\ twin[1].roomSent = twin[2].roomSent
    /\ twin[1].pending = twin[2].pending

\* the two clients' last frames differ in their payload, the effect has run
\* on them, and an answer has since replaced the list
C17_Witness ==
    /\ twin[1].lastMessage.type # NoMsg
    /\ twin[1].lastMessage.data # twin[2].lastMessage.data
    /\ ~twin[1].pending /\ ~twin[1].listSent
    /\ twin[1].list = Tail(SeedStore)

\* C20: the list a mounted page displays is never the answer to a re-fetch
\* that a change event started and that was under way when the page unmounted.
C20_AbandonedFetch == mounted => sortBy \notin late


\* C21: of the vote calls made together for one (room, question, voter) key,
\* exactly one is accepted and the others are answered AlreadyVoted; the
\* question's count rises by one and the ledger holds the key once.
CallsOf(key, results) ==
    {c \in CallIds : calls.out[c].key = key /\ calls.out[c].st \in results}
LedgerCount(key) ==
    Cardinality({i \in 1..Len(calls.store.ledger) : calls.store.ledger[i] = key})
C21_OneVotePerKey ==
    /\ \A k \in VoteKeys :
         /\ CallsOf(k, {"ok", "AlreadyVoted"}) # {} => Cardinality(CallsOf(k, {"ok"})) = 1
         /\ LedgerCount(k) = Cardinality(CallsOf(k, {"ok"}))
    /\ \A q \in StoreQuestions :
         calls.store.votes[q] =
             Cardinality({c \in CallIds : calls.out[c].st = "ok" /\ calls.out[c].key[2] = q})
\* two calls for one key have both been answered, one of them AlreadyVoted
C21_Witness ==
    \E k \in VoteKeys :
        /\ Cardinality(CallsOf(k, {"ok", "AlreadyVoted"})) >= 2
        /\ CallsOf(k, {"AlreadyVoted"}) # {}
        /\ calls.store.votes[k[2]] = 1

\* C24: a submit or a vote made to a room that is LIVE but whose expires_at
\* is not in the future (now >= expires_at) fails with SessionClosed and
\* leaves the store as it was.
C24_ExpiredLiveRoomClosed ==
    (last.op \in {"submit", "vote"} /\ last.status = "LIVE" /\ last.expired)
        => (last.res = "SessionClosed" /\ ~last.changed)
\* a vote was refused by a LIVE room past its expiry, then a submit was
C24_Witness ==
    /\ last.op = "submit" /\ last.status = "LIVE" /\ last.expired
    /\ last.res = "SessionClosed"
    /\ \E c \in CallIds : calls.out[c].st = "SessionClosed"

\* C22: the room's status only moves forward along WAITING -> LIVE -> ENDED:
\* start succeeds only from WAITING, end only from WAITING or LIVE, both
\* fail with InvalidTransition from ENDED, and a failed call leaves the room
\* as it was.
StatusRank(st) == IF st = "WAITING" THEN 0 ELSE IF st = "LIVE" THEN 1 ELSE 2
C22_StatusForwardOnly ==
    /\ StatusRank(last.after.status) >= StatusRank(last.before.status)
    /\ last.op = "start" =>
         /\ last.res = "ok" <=> (last.token = OrganizerToken /\ last.before.status = "WAITING")
         /\ last.res = "ok" => last.after = [last.before EXCEPT !.status = "LIVE"]
    /\ last.op = "end" =>
         /\ last.res = "ok" <=> (last.token = OrganizerToken
                                 /\ last.before.status \in {"WAITING", "LIVE"})
         /\ last.res = "ok" => last.after = [last.before EXCEPT !.status = "ENDED"]
    /\ (last.op \in {"start", "end"} /\ last.token = OrganizerToken
        /\ last.before.status = "ENDED") => last.res = "InvalidTransition"
    /\ (last.op # "none" /\ last.res # "ok") => last.after = last.before
    /\ srvRoom = last.after
\* a start was refused on a room that had been ended
C22_Witness ==
    /\ last.op = "start" /\ last.token = OrganizerToken
    /\ last.before.status = "ENDED" /\ last.res = "InvalidTransition"
    /\ srvRoom.status = "ENDED"

\* C23: extend succeeds only with the matching token, status LIVE and
\* minutes > 0, and then adds exactly the requested minutes to expires_at;
\* in every other case expires_at stays, so it never decreases.
C23_ExtendExact ==
    /\ last.op = "extend" =>
         /\ last.res = "ok" <=> (last.token = OrganizerToken /\ last.before.status = "LIVE"
                                 /\ last.minutes > 0)
         /\ last.res = "ok" =>
              last.after = [last.before EXCEPT !.expires_at = @ + last.minutes]
         /\ last.res # "ok" => last.after = last.before
    /\ last.op # "extend" => last.after.expires_at = last.before.expires_at
    /\ last.after.expires_at >= last.before.expires_at
    /\ srvRoom = last.after
\* a LIVE room was extended by two minutes
C23_Witness ==
    /\ last.op = "extend" /\ last.res = "ok" /\ last.minutes = 2
    /\ last.before.status = "LIVE"
    /\ srvRoom.expires_at = last.before.expires_at + 2

\* C25: publish(room, event) delivers the event to every connection that is
\* subscribed to that room at publish time (best effort: all but those whose
\* send fails) and to no other: a connection subscribed to another room, or
\* one that subscribes only after the publish, never receives the event.
C25_PublishToSubscribers ==
    \A e \in 1..Len(bcast.log), c \in Conns :
        e \in bcast.got[c] <=>
            (c \in bcast.log[e].subs[bcast.log[e].room] /\ c \notin bcast.log[e].failed)
\* one connection received an event; another, then subscribed to a different
\* room only and subscribed to this one since, has not
C25_Witness ==
    \E e \in 1..Len(bcast.log), c1, c2 \in Conns :
        LET ev == bcast.log[e]
        IN  /\ e \in bcast.got[c1]
            /\ c2 \notin ev.subs[ev.room]
            /\ \E r \in Rooms \ {ev.room} : c2 \in ev.subs[r]
            /\ c2 \in bcast.subs[ev.room]
            /\ e \notin bcast.got[c2]

\* C26: no submit request has empty or whitespace-only content: every content
\* the form passed to the submit mutation holds a character that is no blank.
C26_NoBlankSubmit ==
    \A i \in 1..Len(form.sent) :
        \E j \in 1..Len(form.sent[i]) : form.sent[i][j] # " "
\* a text with blanks around a letter was sent, and a blank text is in the input
C26_Witness ==
    /\ Len(form.sent) >= 1
    /\ Len(form.sent[1]) >= 2
    /\ form.sent[1][1] = " "
    /\ form.newQuestion = <<" ">>
    /\ ~form.isPending

\* C27: handleJoin navigates only when the code has 6 characters, and to the
\* upper-cased code: the route holds no lower-case letter and is the typed
\* code but for letter case, so codes that differ only in case lead to the
\* same route; a shorter code sets the error and does not navigate.
C27_JoinUpperCased ==
    /\ landing.route # NoRoute =>
         /\ Len(landing.typed) = 6
         /\ Len(landing.route) = 6
         /\ \A i \in 1..6 :
              /\ landing.route[i] # "a"
              /\ landing.route[i] = landing.typed[i]
                 \/ (landing.typed[i] = "a" /\ landing.route[i] = "A")
    /\ landing.error # NoError =>
         (Len(landing.typed) < 6 /\ landing.route = NoRoute)
\* a code typed with lower-case letters was joined
C27_Witness ==
    /\ landing.route = <<"A", "A", "1", "A", "A", "A">>
    /\ landing.typed = <<"a", "A", "1", "a", "a", "A">>
\* a code of five characters was refused
C27_WitnessShort ==
    /\ landing.error = CodeError /\ Len(landing.typed) = 5

\* C28: the voter id is generated at most once per device: a stored id is
\* reused, otherwise a new one is stored, and every submit and vote request
\* of the device carries that one id.
C28_OneVoterId ==
    /\ Cardinality(device.generated) <= 1
    /\ device.generated # {} => device.stored \in device.generated
    /\ \A t \in Tabs : device.voterId[t] \in {NoId, device.stored}
    /\ \A i \in 1..Len(device.requests) : device.requests[i].voter_id = device.stored
\* an id was generated, and a submit of one page and a vote of another, opened
\* later, carry it
C28_Witness ==
    /\ device.generated # {}
    /\ Len(device.requests) >= 2
    /\ device.requests[1].kind = "submit"
    /\ device.requests[2].kind = "vote"
    /\ device.voterId["t1"] = NoId /\ device.voterId["t2"] # NoId

\* C29: the status is truthful: while it is 'connected' the hook holds an
\* open socket for the current room id, and while the hook's socket is
\* closed or absent the status is 'disconnected' or 'connecting'.  A socket
\* the hook has asked to close counts as open until its close event.
HeldSocketOpen ==
    /\ wsRef # 0
    /\ sockets[wsRef].state \in {"OPEN", "CLOSING"}
C29_StatusTruthful ==
    mounted =>
        /\ status = "connected" => (HeldSocketOpen /\ sockets[wsRef].room = roomId)
        /\ ~HeldSocketOpen => status \in {"disconnected", "connecting"}

\* C30: the dashboard disables reply and mark-answered exactly when the room
\* it shows is ENDED or now >= expires_at, the instant now = expires_at
\* included, as the clock ticks.
C30_LockedWhenClosed ==
    dData.ok =>
        (areControlsLocked <=>
            (dData.room.status = "ENDED" \/ now >= dData.room.expires_at))

\* C31: in useRoomLogic an optimistic vote changes only the target question's
\* vote count, by exactly +1, and leaves every other question, every other
\* field and the order of the cached list as they were; an optimistic submit
\* adds exactly one entry, with a temporary id, no votes and not answered,
\* and changes no entry that was there.
IsVoteEdit(old, new) ==
    /\ Len(new) = Len(old)
    /\ \E i \in 1..Len(old) :
         /\ new[i] = [old[i] EXCEPT !.votes = @ + 1]
         /\ \A j \in 1..Len(old) : j # i => new[j] = old[j]
WithoutEntry(list, i) == [j \in 1..(Len(list) - 1) |-> IF j < i THEN list[j] ELSE list[j + 1]]
IsSubmitEdit(old, new) ==
    /\ Len(new) = Len(old) + 1
    /\ \E i \in 1..Len(new) :
         /\ new[i].id < 0 /\ new[i].votes = 0 /\ ~new[i].is_answered
         /\ WithoutEntry(new, i) = old
LiveSockets == {s \in SockIds : sockets[s].state \in {"CONNECTING", "OPEN"}}
C32_OneSocketForRoom ==
    /\ Cardinality(LiveSockets) <= 1
    /\ \A s \in LiveSockets : sockets[s].room = roomId

\* C33: every question id this client has issued a vote for stays in the
\* voted set and in its stored copy, also when two votes are issued before
\* the component renders again.
C33_VotedKeepsAll ==
    /\ voted.issued \subseteq voted.state
    /\ voted.issued \subseteq voted.stored

\* C34: the stored "my questions" of a room holds server ids only: no
\* temporary id is ever written to local storage, and after a successful
\* submit the stored set holds the server id of that question.
C34_StoredIdsConfirmed ==
    /\ \A id \in mine.stored : id > 0
    /\ mine.confirmed \subseteq mine.stored

\* C35: the dashboard's optimistic session-control update makes legal moves
\* only: the displayed status becomes LIVE only from WAITING and ENDED only
\* from WAITING or LIVE, it never moves the status out of ENDED, and it
\* advances expires_at only while the displayed status is LIVE, by a positive
\* amount.
C35_OptimisticLegal ==
    [][(control.st # "sent" /\ control'.st = "sent") =>
          LET old == dData.room
              new == dData'.room
          IN  /\ new.status # old.status =>
                   \/ old.status = "WAITING" /\ new.status = "LIVE"
                   \/ old.status \in {"WAITING", "LIVE"} /\ new.status = "ENDED"
              /\ new.expires_at # old.expires_at =>
                   (old.status = "LIVE" /\ new.expires_at > old.expires_at)]_vars
\* C36: when an optimistic submit or vote begins, the list fetches in flight are
\* cancelled in the same step, for every sort mode of the room, so that none of
\* them can land on the optimistic entry
MutationBegins ==
    \/ post.st = "idle" /\ post'.st = "sent"
    \/ vote.st = "idle" /\ vote'.st = "sent"
C36_AllModesCancelled ==
    [][MutationBegins => \A m \in AllModes : qFetch'[m] = IdleFetch]_vars
\* C36 as the code has it: a submit cancels the fetches of every sort mode, a
\* vote the fetch of the displayed mode, whose list is the only one that gets
\* the +1
C36_WrittenListCancelled ==
    [][MutationBegins =>
          /\ qFetch'[sortBy] = IdleFetch
          /\ \A m \in AllModes : cache'[m] # cache[m] => qFetch'[m] = IdleFetch
          /\ post'.st # post.st => \A m \in AllModes : qFetch'[m] = IdleFetch]_vars
C36_Witness ==
    /\ vote.st = "sent"
    /\ cache[sortBy].ok
    /\ cache[sortBy].list = OptimisticVote(vote.prev.list, vote.q)
    /\ qFetch[sortBy] = IdleFetch
    /\ \E m \in AllModes : qFetch[m].st # "idle"

\* C37: the step in which a dashboard mutation settles, after a success or a
\* failure, starts a re-fetch of the dashboard snapshot; and whenever no mutation
\* is pending, no fetch is under way and no event waits, the dashboard shows the
\* server's room and questions
MutationSettles ==
    \/ InFlight(reply) /\ ~InFlight(reply')
    \/ InFlight(mark) /\ ~InFlight(mark')
    \/ InFlight(control) /\ ~InFlight(control')
ServerData ==
    Data([status |-> srvRoom.status, expires_at |-> srvRoom.expires_at], dSrvQuestions)
DashQuiet ==
    /\ ~InFlight(reply) /\ ~InFlight(mark) /\ ~InFlight(control)
    /\ dFetch = IdleDash /\ ~dEvent
C37_RefetchAfterSettle ==
    /\ [][MutationSettles => dFetch' = SentDash]_vars
    /\ [](DashQuiet => dData = ServerData)
C37_Witness ==
    /\ reply.st = "error" /\ mark.st = "success"
    /\ DashQuiet /\ dData = ServerData
    /\ \E i \in 1..Len(dData.questions) : dData.questions[i].is_answered

\* C38: a push message that is not JSON is dropped: the step in which it arrives
\* leaves lastMessage and the connectivity status as they were, starts no effect
\* and so no re-fetch, closes no socket and schedules no reconnect
C38_GarbageDropped ==
    [][(heard' # heard /\ heard'.frame = "garbage") =>
          UNCHANGED <<lastMessage, status, effectPending, sockets, timers, wsRef,
                      reconnectTimeoutRef>>]_vars
C38_Witness ==
    /\ heard.frame = "garbage"
    /\ mounted /\ wsRef # 0 /\ sockets[wsRef].state = "OPEN" /\ status = "connected"
    /\ lastMessage # NoMsg /\ ~effectPending

====
